---- MODULE Spec2Model ----
(***************************************************************************)
(* dev-browser-studio: the Perception Loop (src/src/perception-loop.ts,    *)
(* src/src/budget.ts, src/src/audit-logger.ts) and the Recording Engine    *)
(* with Console Capture (src/src/index.ts), as state machines.             *)
(*                                                                         *)
(* SpecLoop  one run of PerceptionLoop.run, one step per stretch of code   *)
(*           between two awaits, the environment (page, vision model,      *)
(*           executor, file system) choosing every outcome.                *)
(* SpecRec   one registered page of the HTTP server: overlapping request   *)
(*           handlers and CDP event handlers interleave at their awaits.   *)
(* SpecFrames  SpecRec without console events and console clears.          *)
(* SpecClose   the registered page is recorded, deleted, or closes by       *)
(*             itself.                                                     *)
(* SpecPages   POST /pages requests for one name, from an empty registry.  *)
(* SpecExec    calls of ActionExecutor.execute (src/src/tools.ts).         *)
(* SpecBudget  a BudgetController used through its methods.                *)
(* SpecSampler a FrameSampler (frame-sampler.ts) used through its methods. *)
(* SpecStarted SpecFrames from the moment the page's recording has started. *)
(* SpecHistory calls of compressHistory (vlm-client.ts).                   *)
(* SpecKeyFrames  the key-frame step of recording/stop (extractKeyFrames). *)
(* SpecEncode  recording/stop from its encode step on (video-encoder.ts).  *)
(* SpecNoTool  SpecLoop with a vision model that may answer without a      *)
(*             tool call.                                                  *)
(* SpecStuck   SpecLoop from the end of a third cycle on.                  *)
(* SpecTerminal  SpecLoop of one cycle, with one execute call on its own.  *)
(* SpecShutdown  the registered page while signals and unhandled errors    *)
(*               shut the server down.                                     *)
(* SpecSnapshot  calls of truncateSnapshot (perception-loop.ts).           *)
(***************************************************************************)
EXTENDS Integers, Sequences, FiniteSets, TLC

(***************************************************************************)
(* Bounds of the model.                                                    *)
(***************************************************************************)
MaxCycles == 2          \* largest maxCycles a run is configured with
MaxErrors == 2          \* largest maxConsecutiveErrors a run is configured with
MaxReacquires == 1      \* successful page re-acquisitions of one run
MaxRequests == 2        \* recording start/stop requests that get past their 409 check
MaxLogs == 2            \* console entries delivered
MaxFrames == 2          \* screencast frames delivered
MaxOps == 2             \* page and element operations one execute() call attempts
MaxReports == 3         \* onCycleComplete calls on one BudgetController
MaxTicks == 2           \* milliseconds the clock of a BudgetController advances
MaxPosts == 2            \* POST /pages requests
MaxDeletes == 2          \* DELETE /pages/:name requests
MaxBeats == 11          \* hasChanged results followed for one repeated frame
MaxEntries == 3         \* entries of a history given to compressHistory
MaxDetailed == 2        \* largest maxDetailed given to compressHistory
MaxBuffer == 10         \* frames in the buffer of a stopped recording
MaxKeyFrameCount == 6   \* largest keyFrameCount of a recording
MaxEncoded == 3         \* frames in the buffer given to the encoder
MaxForces == 2          \* forceCapture calls between two hasChanged calls
MaxTriggers == 2        \* signals and unhandled errors delivered to the process
MaxOver == 4            \* characters by which a snapshot or a cap exceeds the notice

(***************************************************************************)
(* Program constants.                                                      *)
(***************************************************************************)
DefaultBudgetMaxCycles == 100
DefaultMaxTokens == 500000
DefaultMaxCostMicroUSD == 5000000      \* 5.0 USD, in millionths of a dollar
DefaultMaxDurationMs == 600000
INPUT_COST_PER_M == 3
OUTPUT_COST_PER_M == 15
PixelNoise == 25                       \* per-pixel difference that is ignored
HeartbeatSkips == 5                    \* skips after which a frame is taken anyway
DefaultDiffThresholdPercent == 5       \* diffThreshold 0.05
NoticeLength == 63                     \* characters of the truncation notice

VARIABLES
  \* ---- PerceptionLoop.run ----
  config,             \* this.config: maxCycles, maxConsecutiveErrors, safety
  vlm,                \* this.vlm: the responses its model gives in this run
  limits,             \* BudgetController.limits
  pc,                 \* where run() is
  cycle,              \* the for-loop variable
  history,            \* CycleEntry[]
  consecutiveErrors,
  budget,             \* BudgetController: cycles, inputTokens, outputTokens
  elapsed,            \* Date.now() - startTime: 0, or a time past the limit
  vlmResult,          \* the action and usage analyzeFrame returned
  cyclesJsonl,        \* records appended to cycles.jsonl
  summaryJson,        \* every successful write of summary.json, in order
  result,             \* what run() returned
  executed,           \* the actions handed to executor.execute, with their cycle
  denial,             \* the reason canProceed denied with, "" if it has not
  taskWithContext,    \* the task text of this cycle's analyzeFrame call, in pieces
  vlmResponse,        \* response.content of this cycle's messages.create call
  page,               \* the page handle of run(): how often it was re-acquired
  executor            \* the page handle the ActionExecutor was built on

VARIABLES
  \* ---- serve(): one registered page ----
  consoleLogs,        \* entry.consoleLogs: the ids of the entries, in order
  recording,          \* entry.recording: a RecordingState object, 0 if undefined
  recordings,         \* the RecordingState objects created so far
  sessions,           \* the CDP sessions created by recording/start
  handlers,           \* request handlers suspended at an await
  acks,               \* screencastFrame handlers awaiting their frame ack
  lastResponse,       \* the latest response of a recording/start or /stop
  nextRequest,        \* number of the next request that suspends
  nextLog,            \* id of the next console entry
  nextFrame,          \* id of the next screencast frame
  startsSinceStop,    \* recording/start 200s since the last accepted stop
  serverExit          \* errorHandler ran: the process has exited

VARIABLES
  \* ---- ActionExecutor ----
  execution           \* the latest execute() call: action, environment, outcome

VARIABLES
  \* ---- BudgetController ----
  controller,         \* cycles, inputTokens, outputTokens
  controllerLimits,   \* this.limits
  controllerElapsed,  \* Date.now() - this.startTime
  reports,            \* the token counts reported to onCycleComplete, in order
  answer              \* the latest canProceed() result and the state it saw

VARIABLES
  \* ---- FrameSampler ----
  sampler,            \* lastThumbnail, consecutiveSkips, forceNextCapture, diffThreshold
  samplerCall,        \* the latest hasChanged call: frame, outcome, sampler before and after
  pendingForces,      \* forceCapture calls since the latest hasChanged or reset
  heartbeat,          \* the results since the sampler was fresh, one frame repeated
  falseRun            \* how many times in a row hasChanged has returned false

VARIABLES
  \* ---- serve(): the page registry, for one page name ----
  registry,           \* registry.get(name): an index of pageEntries, 0 if absent
  pageEntries,        \* the PageEntry objects created so far
  browserPages,       \* the pages created in the browser context
  posts,              \* POST /pages handlers suspended at an await
  deletes,            \* DELETE /pages/:name handlers suspended at an await
  pageResponses,      \* the responses of POST /pages and DELETE /pages/:name
  nextPost,           \* number of the next POST /pages request
  nextDelete          \* number of the next DELETE /pages/:name request

VARIABLES
  \* ---- functions called on their own ----
  compression,        \* the latest compressHistory call: arguments and result
  extraction,         \* the key-frame step of the latest stop: buffer, options, files
  encoding,           \* the latest stop from its encode step on: buffer, environment, outcome
  truncation          \* the latest truncateSnapshot call: snapshot, maxChars, result

VARIABLES
  \* ---- serve(): shutdown ----
  cleaningUp,         \* let cleaningUp
  cleanupCall,        \* where cleanup() is: pc, the entry and session it holds
  context,            \* the browser context is open
  triggers            \* signals and unhandled errors delivered so far

recVars == <<consoleLogs, recording, recordings, sessions, handlers, acks,
             lastResponse, nextRequest, nextLog, nextFrame, startsSinceStop,
             serverExit>>

handleVars == <<page, executor>>

loopVars == <<config, vlm, limits, pc, cycle, history, consecutiveErrors, budget,
              elapsed, vlmResult, cyclesJsonl, summaryJson, result,
              executed, denial, handleVars,
              taskWithContext, vlmResponse>>

execVars == <<execution>>

\* the objects that are modelled on their own
controllerVars == <<controller, controllerLimits, controllerElapsed, reports,
                    answer>>

samplerVars == <<sampler, samplerCall, pendingForces, heartbeat, falseRun>>

callVars == <<compression, extraction, encoding, truncation>>

shutdownVars == <<cleaningUp, cleanupCall, context, triggers>>

unitVars == <<execVars, controllerVars, samplerVars, callVars, shutdownVars>>

pagesVars == <<registry, pageEntries, browserPages, posts, deletes,
               pageResponses, nextPost, nextDelete>>

\* what PerceptionLoop.run leaves alone, what the recording and console
\* endpoints leave alone, and what the page endpoints leave alone
notLoopVars == <<recVars, pagesVars, unitVars>>
notRecVars == <<loopVars, pagesVars, unitVars>>
notPagesVars == <<loopVars, unitVars>>

vars == <<loopVars, recVars, pagesVars, unitVars>>

(***************************************************************************)
(* Arrays.                                                                 *)
(***************************************************************************)
Min(a, b) == IF a < b THEN a ELSE b
Max(a, b) == IF a > b THEN a ELSE b

\* Array.prototype.slice: a negative index counts from the end, -0 is 0,
\* and both ends are clamped to the array
RelativeIndex(i, len) == IF i < 0 THEN Max(len + i, 0) ELSE Min(i, len)

slice(arr, start, end) ==
  SubSeq(arr, RelativeIndex(start, Len(arr)) + 1, RelativeIndex(end, Len(arr)))

sliceFrom(arr, start) == slice(arr, start, Len(arr))

(***************************************************************************)
(* Agent actions.                                                          *)
(***************************************************************************)
URLs == {"/admin", "/docs"}

\* The tool names of AGENT_TOOLS.
ActionNames == {"click", "type", "scroll", "navigate", "keyboard", "wait",
                "hover", "select", "done", "fail"}

AgentAction(n, u, s) ==
  [name |-> n, input |-> [url |-> u, success |-> s, reason |-> ""]]

\* The tools the vision model answers with in the model: "type", "keyboard"
\* and "select" are treated by the loop exactly as "click" is; "scroll",
\* "hover" and "wait" exactly as a "navigate" that no pattern blocks.
AnsweredNames == {"click", "navigate", "done", "fail"}

\* What the vision model may answer with.
AgentActions ==
  {AgentAction(n, "", FALSE) : n \in AnsweredNames \ {"navigate", "done"}}
    \cup {AgentAction("navigate", u, FALSE) : u \in URLs}
    \cup {AgentAction("done", "", s) : s \in BOOLEAN}

\* usage of one analyzeFrame call
Usages == {[input |-> 2, output |-> 1]}

NoTokens == [input |-> 0, output |-> 0]
NoAction == AgentAction("none", "", FALSE)
ErrorAction == AgentAction("error", "", FALSE)

(***************************************************************************)
(* Safety filter.                                                          *)
(***************************************************************************)
NoSafety == [configured |-> FALSE, readOnlyMode |-> FALSE,
             blockedURLPatterns |-> <<>>]

\* The safety blocks a run is configured with: none, read-only mode, blocked
\* patterns, both.
Safeties ==
  {NoSafety,
   [configured |-> TRUE, readOnlyMode |-> TRUE, blockedURLPatterns |-> <<>>],
   [configured |-> TRUE, readOnlyMode |-> FALSE,
    blockedURLPatterns |-> <<"login", "admin">>],
   [configured |-> TRUE, readOnlyMode |-> TRUE,
    blockedURLPatterns |-> <<"login", "admin">>]}

\* new RegExp(pattern).test(url), for the patterns and urls of the model
RegExpTest(pattern, url) ==
  \/ pattern = "admin" /\ url = "/admin"
  \/ pattern = "login" /\ url = "/login"

allowedInReadOnly == {"scroll", "navigate", "wait", "done", "fail", "hover"}

Allowed == [allowed |-> TRUE, reason |-> ""]
Denied(why) == [allowed |-> FALSE, reason |-> why]

\* the first pattern of the list that matches, 0 when none does
FirstMatch(patterns, url) ==
  IF \E i \in 1..Len(patterns) : RegExpTest(patterns[i], url)
  THEN CHOOSE i \in 1..Len(patterns) :
         /\ RegExpTest(patterns[i], url)
         /\ \A j \in 1..(i - 1) : ~RegExpTest(patterns[j], url)
  ELSE 0

\* a filter that skips the URL patterns once the read-only check has passed
validateActionReadOnlyFirst(action, safety) ==
  IF ~safety.configured THEN Allowed
  ELSE IF safety.readOnlyMode
  THEN IF action.name \notin allowedInReadOnly
       THEN Denied("read-only mode")
       ELSE Allowed
  ELSE IF /\ action.name = "navigate"
          /\ Len(safety.blockedURLPatterns) > 0
          /\ FirstMatch(safety.blockedURLPatterns, action.input.url) # 0
  THEN Denied("blocked by pattern")
  ELSE Allowed

validateAction(action, safety) ==
  IF ~safety.configured THEN Allowed
  ELSE IF safety.readOnlyMode /\ action.name \notin allowedInReadOnly
  THEN Denied("read-only mode")
  ELSE IF /\ action.name = "navigate"
          /\ Len(safety.blockedURLPatterns) > 0
          /\ FirstMatch(safety.blockedURLPatterns, action.input.url) # 0
  THEN Denied("blocked by pattern")
  ELSE Allowed

(***************************************************************************)
(* Budget Controller.                                                      *)
(***************************************************************************)
estimateCost(b) ==
  b.inputTokens * INPUT_COST_PER_M + b.outputTokens * OUTPUT_COST_PER_M

\* canProceed that denies only above a limit
canProceedAboveLimit(b, lim, el) ==
  IF b.cycles > lim.maxCycles THEN Denied("Max cycles reached")
  ELSE IF b.inputTokens + b.outputTokens > lim.maxTokens
  THEN Denied("Max tokens reached")
  ELSE IF estimateCost(b) > lim.maxCostMicroUSD
  THEN Denied("Max cost reached")
  ELSE IF el > lim.maxDurationMs THEN Denied("Max duration reached")
  ELSE Allowed

canProceed(b, lim, el) ==
  IF b.cycles >= lim.maxCycles THEN Denied("Max cycles reached")
  ELSE IF b.inputTokens + b.outputTokens >= lim.maxTokens
  THEN Denied("Max tokens reached")
  ELSE IF estimateCost(b) >= lim.maxCostMicroUSD
  THEN Denied("Max cost reached")
  ELSE IF el >= lim.maxDurationMs THEN Denied("Max duration reached")
  ELSE Allowed

\* onCycleComplete that keeps the counts of the latest cycle only
onCycleCompleteLatest(b, tokens) ==
  [cycles |-> b.cycles + 1,
   inputTokens |-> tokens.input,
   outputTokens |-> tokens.output]

onCycleComplete(b, tokens) ==
  [cycles |-> b.cycles + 1,
   inputTokens |-> b.inputTokens + tokens.input,
   outputTokens |-> b.outputTokens + tokens.output]

DefaultLimits ==
  [maxCycles |-> DefaultBudgetMaxCycles, maxTokens |-> DefaultMaxTokens,
   maxCostMicroUSD |-> DefaultMaxCostMicroUSD,
   maxDurationMs |-> DefaultMaxDurationMs]

\* The budgets a run is configured with: one limit within reach of a run, the
\* others at their defaults (maxDurationMs is within reach of every run).
BudgetConfigs ==
  {[DefaultLimits EXCEPT !.maxCycles = c] : c \in 1..MaxCycles}
    \cup {[DefaultLimits EXCEPT !.maxTokens = 3],
          [DefaultLimits EXCEPT !.maxCostMicroUSD = 21]}

(***************************************************************************)
(* Audit Logger and results.                                               *)
(***************************************************************************)
CycleEntry(c, action, res, tokens) ==
  [cycle |-> c, action |-> action, result |-> res, tokens |-> tokens]

Ok == [success |-> TRUE, error |-> <<>>]
Failed(msg) == [success |-> FALSE, error |-> msg]

NoResult == [success |-> FALSE, summary |-> <<"none">>, cycles |-> 0,
             extractedData |-> FALSE, budgetCycles |-> 0, estimatedTokens |-> 0]

\* a result whose success is the result of the last cycle entry
buildResultFromLastEntry(success, summary, h, extracted, b) ==
  [success |-> h # <<>> /\ h[Len(h)].result.success, summary |-> summary,
   cycles |-> Len(h), extractedData |-> extracted, budgetCycles |-> b.cycles,
   estimatedTokens |-> b.inputTokens + b.outputTokens]

buildResult(success, summary, h, extracted, b) ==
  [success |-> success, summary |-> summary, cycles |-> Len(h),
   extractedData |-> extracted, budgetCycles |-> b.cycles,
   estimatedTokens |-> b.inputTokens + b.outputTokens]

\* the line logCycle appends to cycles.jsonl
LogEntry(entry, b) ==
  [cycle |-> entry.cycle, action |-> entry.action, result |-> entry.result,
   budget_remaining |-> limits.maxCycles - b.cycles]

\* a summary whose cycle count is the budget's cycle counter
SummaryWithBudgetCycles(r, b) ==
  [success |-> r.success, summary |-> r.summary, cycles |-> b.cycles,
   cycles_used |-> b.cycles,
   tokens |-> b.inputTokens + b.outputTokens]

\* the object saveSummary writes to summary.json
Summary(r, b) ==
  [success |-> r.success, summary |-> r.summary, cycles |-> r.cycles,
   cycles_used |-> b.cycles,
   tokens |-> b.inputTokens + b.outputTokens]

\* The outcomes of one audit-file write: TRUE written, FALSE the write threw.
WriteOutcomes == BOOLEAN

\* Date.now() - startTime after an await: as it was, or past maxDurationMs.
\* canProceed reads the clock only to compare it with that limit.
Elapsed == {elapsed, limits.maxDurationMs}

\* buildResult(...); audit.saveSummary(result, budget.getState()); return result
\* with h and b the history and budget at that point; a throwing saveSummary
\* leaves run() at onThrow.
Finalize(success, summary, h, extracted, b, onThrow) ==
  \E written \in WriteOutcomes :
    IF written
    THEN /\ result' = buildResult(success, summary, h, extracted, b)
         /\ summaryJson' = Append(summaryJson,
                Summary(buildResult(success, summary, h, extracted, b), b))
         /\ pc' = "returned"
    ELSE /\ result' = result
         /\ summaryJson' = summaryJson
         /\ pc' = onThrow

(***************************************************************************)
(* PerceptionLoop.run                                                      *)
(***************************************************************************)
\* the task run() is called with, and the sentence stuck detection adds
Task == <<"task">>
StuckWarning == "You appear to be repeating the same action. Try a different approach."
NoTask == <<>>

\* JSON.stringify(e.action.input), for the inputs of the model
stringify(input) ==
  <<"url", input.url, "success", ToString(input.success),
    "reason", input.reason>>

\* `${e.action.name}:${JSON.stringify(e.action.input)}`
actionKey(e) == <<e.action.name, ":">> \o stringify(e.action.input)

\* a stuck check that looks at the last two entries
isStuckLastTwo(h) ==
  IF Len(h) < 2 THEN FALSE
  ELSE LET last2 == sliceFrom(h, 0 - 2)
           actions == [i \in 1..Len(last2) |-> actionKey(last2[i])]
       IN actions[1] = actions[2]

isStuck(h) ==
  IF Len(h) < 3 THEN FALSE
  ELSE LET last3 == sliceFrom(h, 0 - 3)
           actions == [i \in 1..Len(last3) |-> actionKey(last3[i])]
       IN actions[1] = actions[2] /\ actions[2] = actions[3]

\* let taskWithContext = task; if (this.isStuck(history)) taskWithContext += ...
addStuckWarning(task, h) ==
  IF isStuck(h) THEN task \o <<StuckWarning>> ELSE task

\* The content blocks of a response of messages.create.
TextBlock(text) == [type |-> "text", text |-> text, action |-> NoAction]
ToolUseBlock(a) == [type |-> "tool_use", text |-> "", action |-> a]

DefaultReason == "Model did not return a tool_use response"

\* The responses of a model that answers with one tool call.
ToolCalls == {<<ToolUseBlock(a)>> : a \in AgentActions}

\* The responses of a model that does not always call a tool: a tool call,
\* a tool call after a text block, text alone, nothing.
TextResponses ==
  {<<ToolUseBlock(AgentAction("click", "", FALSE))>>,
   <<TextBlock("I will click"), ToolUseBlock(AgentAction("click", "", FALSE))>>,
   <<TextBlock("I cannot go on")>>,
   <<>>}

NoContent == <<>>

\* response.content.find((block) => block.type === type): the index of the
\* first such block, 0 for undefined
find(content, type) ==
  IF \E i \in 1..Len(content) : content[i].type = type
  THEN CHOOSE i \in 1..Len(content) :
         /\ content[i].type = type
         /\ \A j \in 1..(i - 1) : content[j].type # type
  ELSE 0

FailAction(reason) ==
  [name |-> "fail", input |-> [url |-> "", success |-> FALSE, reason |-> reason]]

\* an analyzeFrame whose synthesized fail action always carries the default
\* reason
analyzeFrameDefaultReason(content, usage) ==
  LET toolUseBlock == find(content, "tool_use") IN
  IF toolUseBlock = 0
  THEN [action |-> FailAction(DefaultReason), usage |-> usage]
  ELSE [action |-> content[toolUseBlock].action, usage |-> usage]

\* VLMClient.analyzeFrame from the response on: the action of the first
\* tool_use block, or a fail action made from the first text block
analyzeFrame(content, usage) ==
  LET toolUseBlock == find(content, "tool_use")
      textBlock == find(content, "text")
  IN IF toolUseBlock = 0
     THEN [action |-> FailAction(IF textBlock # 0 THEN content[textBlock].text
                                 ELSE DefaultReason),
           usage |-> usage]
     ELSE [action |-> content[toolUseBlock].action, usage |-> usage]

NoVlmResult == [action |-> NoAction, usage |-> NoTokens]

\* runAgentLoop is called with a configuration, a budget and a vision model
LoopStart(responses) ==
  /\ vlm = responses
  /\ config \in [maxCycles : 1..MaxCycles,
                 maxConsecutiveErrors : 1..MaxErrors,
                 safety : Safeties]
  /\ limits \in BudgetConfigs
  /\ pc = "loopTop"
  /\ cycle = 0
  /\ history = <<>>
  /\ consecutiveErrors = 0
  /\ budget = [cycles |-> 0, inputTokens |-> 0, outputTokens |-> 0]
  /\ elapsed = 0
  /\ vlmResult = NoVlmResult
  /\ cyclesJsonl = <<>>
  /\ summaryJson = <<>>
  /\ result = NoResult
  /\ executed = <<>>
  /\ denial = ""
  /\ page = 0
  /\ executor = 0
  /\ taskWithContext = NoTask
  /\ vlmResponse = NoContent

LoopInit == LoopStart(ToolCalls)

\* for (cycle ...; cycle < maxCycles; ...) fails: "Max cycles reached (N)"
MaxCyclesReached ==
  /\ UNCHANGED notLoopVars
  /\ UNCHANGED <<taskWithContext, vlmResponse>>
  /\ UNCHANGED handleVars
  /\ pc = "loopTop"
  /\ ~(cycle < config.maxCycles)
  /\ Finalize(FALSE, <<"Max cycles reached", ToString(config.maxCycles)>>,
              history, FALSE, budget, "threw")
  /\ UNCHANGED <<config, vlm, limits, cycle, history, consecutiveErrors, budget,
                 elapsed, vlmResult, cyclesJsonl, executed, denial>>

\* a budget check that notes the denial and goes on with the cycle
BudgetCheckGoesOn ==
  /\ UNCHANGED notLoopVars
  /\ UNCHANGED <<taskWithContext, vlmResponse>>
  /\ UNCHANGED handleVars
  /\ pc = "loopTop"
  /\ cycle < config.maxCycles
  /\ denial' = canProceed(budget, limits, elapsed).reason
  /\ pc' = "screenshot"
  /\ UNCHANGED <<config, vlm, limits, cycle, history, consecutiveErrors, budget,
                 elapsed, vlmResult, cyclesJsonl, executed, result,
                 summaryJson>>

\* the budget check at the top of a cycle
BudgetCheck ==
  /\ UNCHANGED notLoopVars
  /\ UNCHANGED <<taskWithContext, vlmResponse>>
  /\ UNCHANGED handleVars
  /\ pc = "loopTop"
  /\ cycle < config.maxCycles
  /\ LET budgetCheck == canProceed(budget, limits, elapsed) IN
       IF ~budgetCheck.allowed
       THEN /\ denial' = budgetCheck.reason
            /\ Finalize(FALSE, <<"Budget exceeded", budgetCheck.reason>>,
                        history, FALSE, budget, "threw")
       ELSE /\ pc' = "screenshot"
            /\ UNCHANGED <<denial, result, summaryJson>>
  /\ UNCHANGED <<config, vlm, limits, cycle, history, consecutiveErrors, budget,
                 elapsed, vlmResult, cyclesJsonl, executed>>

\* audit.saveFrame(cycle, screenshotBuffer) after a screenshot was taken
SaveFrame ==
  \E written \in WriteOutcomes : pc' = IF written THEN "analyze" ELSE "catch"

\* a reacquirePage() that takes the new page and keeps the old executor
ScreenshotKeepsExecutor ==
  /\ UNCHANGED notLoopVars
  /\ UNCHANGED <<taskWithContext, vlmResponse>>
  /\ pc = "screenshot"
  /\ elapsed' \in Elapsed
  /\ \/ SaveFrame /\ UNCHANGED handleVars
     \/ \E recovered \in BOOLEAN :
          IF recovered
          THEN /\ page < MaxReacquires
               /\ pc' = "retry" /\ page' = page + 1 /\ executor' = executor
          ELSE pc' = "catch" /\ UNCHANGED handleVars
     \/ pc' = "catch" /\ UNCHANGED handleVars
  /\ UNCHANGED <<config, vlm, limits, cycle, history, consecutiveErrors, budget,
                 vlmResult, cyclesJsonl, summaryJson, result, executed, denial>>

\* page.screenshot(), and reacquirePage() when the target is gone
Screenshot ==
  /\ UNCHANGED notLoopVars
  /\ UNCHANGED <<taskWithContext, vlmResponse>>
  /\ pc = "screenshot"
  /\ elapsed' \in Elapsed
  /\ \/ SaveFrame /\ UNCHANGED handleVars
     \/ \* the message contains "Target closed" or "Target page"
        \* reacquirePage()
        \E recovered \in BOOLEAN :
          IF recovered
          THEN /\ page < MaxReacquires
               /\ pc' = "retry"
               /\ page' = page + 1
               /\ executor' = page + 1
          ELSE /\ pc' = "catch"
               /\ UNCHANGED handleVars
     \/ \* any other failure
        pc' = "catch" /\ UNCHANGED handleVars
  /\ UNCHANGED <<config, vlm, limits, cycle, history, consecutiveErrors, budget,
                 vlmResult, cyclesJsonl, summaryJson, result, executed, denial>>

\* the one retry on the re-acquired page
RetryScreenshot ==
  /\ UNCHANGED notLoopVars
  /\ UNCHANGED <<taskWithContext, vlmResponse>>
  /\ UNCHANGED handleVars
  /\ pc = "retry"
  /\ \/ SaveFrame
     \/ pc' = "catch"
  /\ UNCHANGED <<config, vlm, limits, cycle, history, consecutiveErrors, budget,
                 elapsed, vlmResult, cyclesJsonl, summaryJson, result,
                 executed, denial>>

\* this.vlm.analyzeFrame(...): an answer, or an API error or timeout
AnalyzeFrame ==
  /\ UNCHANGED notLoopVars
  /\ UNCHANGED handleVars
  /\ pc = "analyze"
  /\ elapsed' \in Elapsed
  /\ taskWithContext' = addStuckWarning(Task, history)
  /\ \/ \E content \in vlm, u \in Usages :
          /\ vlmResponse' = content
          /\ vlmResult' = analyzeFrame(content, u)
          /\ pc' = "validate"
     \/ pc' = "catch" /\ vlmResult' = vlmResult /\ vlmResponse' = NoContent
  /\ UNCHANGED <<config, vlm, limits, cycle, history, consecutiveErrors, budget,
                 cyclesJsonl, summaryJson, result, executed,
                 denial>>

\* step 7: the safety check denies the action
BlockedAction ==
  /\ UNCHANGED notLoopVars
  /\ taskWithContext' = NoTask
  /\ vlmResponse' = NoContent
  /\ UNCHANGED handleVars
  /\ pc = "validate"
  /\ LET action == vlmResult.action
         tokens == vlmResult.usage
         safetyCheck == validateAction(action, config.safety)
         entry == CycleEntry(cycle, action,
                             Failed(<<"Blocked:", safetyCheck.reason>>), tokens)
     IN /\ ~safetyCheck.allowed
        /\ history' = Append(history, entry)
        /\ \E written \in WriteOutcomes :
             IF written
             THEN /\ cyclesJsonl' = Append(cyclesJsonl, LogEntry(entry, budget))
                  /\ budget' = onCycleComplete(budget, tokens)
                  /\ consecutiveErrors' = consecutiveErrors + 1
                  /\ cycle' = cycle + 1
                  /\ pc' = "loopTop"
             ELSE /\ pc' = "catch"
                  /\ UNCHANGED <<cyclesJsonl, budget, consecutiveErrors, cycle>>
  /\ vlmResult' = NoVlmResult
  /\ UNCHANGED <<config, vlm, limits, elapsed, summaryJson, result, executed, denial>>

\* step 8: done and fail
TerminalAction ==
  /\ UNCHANGED notLoopVars
  /\ taskWithContext' = NoTask
  /\ vlmResponse' = NoContent
  /\ UNCHANGED handleVars
  /\ pc = "validate"
  /\ LET action == vlmResult.action
         tokens == vlmResult.usage
         entry == CycleEntry(cycle, action, Ok, tokens)
     IN /\ validateAction(action, config.safety).allowed
        /\ action.name \in {"done", "fail"}
        /\ history' = Append(history, entry)
        /\ \E written \in WriteOutcomes :
             IF written
             THEN /\ cyclesJsonl' = Append(cyclesJsonl, LogEntry(entry, budget))
                  /\ budget' = onCycleComplete(budget, tokens)
                  /\ IF action.name = "done"
                     THEN Finalize(action.input.success,
                                   <<"action.input.summary">>, history',
                                   TRUE, budget', "catch")
                     ELSE Finalize(FALSE, <<action.input.reason>>, history',
                                   FALSE, budget', "catch")
             ELSE /\ pc' = "catch"
                  /\ UNCHANGED <<cyclesJsonl, budget, summaryJson, result>>
  /\ vlmResult' = NoVlmResult
  /\ UNCHANGED <<config, vlm, limits, cycle, consecutiveErrors, elapsed,
                 executed, denial>>

\* steps 9 and 10: executor.execute(action), the entry, the error count, settle
ExecuteAction ==
  /\ UNCHANGED notLoopVars
  /\ taskWithContext' = NoTask
  /\ vlmResponse' = NoContent
  /\ UNCHANGED handleVars
  /\ pc = "validate"
  /\ LET action == vlmResult.action
         tokens == vlmResult.usage
     IN /\ validateAction(action, config.safety).allowed
        /\ action.name \notin {"done", "fail"}
        /\ executed' = Append(executed, [cycle |-> cycle, action |-> action])
        /\ elapsed' \in Elapsed
        /\ \E actionResult \in {Ok, Failed(<<"execution failed">>)} :
             LET entry == CycleEntry(cycle, action, actionResult, tokens) IN
             /\ history' = Append(history, entry)
             /\ \E written \in WriteOutcomes :
                  IF ~written
                  THEN /\ pc' = "catch"
                       /\ UNCHANGED <<cyclesJsonl, budget, consecutiveErrors,
                                      cycle, summaryJson, result>>
                  ELSE /\ cyclesJsonl' = Append(cyclesJsonl, LogEntry(entry, budget))
                       /\ budget' = onCycleComplete(budget, tokens)
                       /\ IF actionResult.success
                          THEN /\ consecutiveErrors' = 0
                               /\ cycle' = cycle + 1
                               /\ pc' = "loopTop"
                               /\ UNCHANGED <<summaryJson, result>>
                          ELSE /\ consecutiveErrors' = consecutiveErrors + 1
                               /\ IF consecutiveErrors' >= config.maxConsecutiveErrors
                                  THEN /\ Finalize(FALSE,
                                            <<"Stopped after consecutive errors",
                                              "Last error">>,
                                            history', FALSE, budget', "catch")
                                       /\ cycle' = cycle
                                  ELSE /\ cycle' = cycle + 1
                                       /\ pc' = "loopTop"
                                       /\ UNCHANGED <<summaryJson, result>>
  /\ vlmResult' = NoVlmResult
  /\ UNCHANGED <<config, vlm, limits, denial>>

\* catch (err): the synthetic "error" entry
CatchError ==
  /\ UNCHANGED notLoopVars
  /\ taskWithContext' = NoTask
  /\ vlmResponse' = NoContent
  /\ UNCHANGED handleVars
  /\ pc = "catch"
  /\ consecutiveErrors' = consecutiveErrors + 1
  /\ LET entry == CycleEntry(cycle, ErrorAction, Failed(<<"exception">>),
                             NoTokens)
     IN /\ history' = Append(history, entry)
        /\ \E written \in WriteOutcomes :
             IF ~written
             THEN /\ pc' = "threw"
                  /\ UNCHANGED <<cyclesJsonl, cycle, summaryJson, result>>
             ELSE /\ cyclesJsonl' = Append(cyclesJsonl, LogEntry(entry, budget))
                  /\ IF consecutiveErrors' >= config.maxConsecutiveErrors
                     THEN /\ Finalize(FALSE,
                                      <<"Stopped after consecutive errors">>,
                                      history', FALSE, budget, "threw")
                          /\ cycle' = cycle
                     ELSE /\ cycle' = cycle + 1
                          /\ pc' = "loopTop"
                          /\ UNCHANGED <<summaryJson, result>>
  /\ UNCHANGED <<config, vlm, limits, budget, elapsed, vlmResult, executed, denial>>

\* The actions of three cycles a run has behind it; each was allowed,
\* executed with success and recorded.
EarlierActions ==
  {AgentAction("click", "", FALSE), AgentAction("navigate", "/docs", FALSE)}

\* the budget state after n cycles of the model's usage
RECURSIVE BudgetAfter(_)
BudgetAfter(n) ==
  IF n = 0 THEN [cycles |-> 0, inputTokens |-> 0, outputTokens |-> 0]
  ELSE onCycleComplete(BudgetAfter(n - 1), [input |-> 2, output |-> 1])

\* run() at the top of its fourth cycle, three actions executed, the first
\* two of them the same
ThreeCyclesDone ==
  /\ limits = DefaultLimits
  /\ vlm = ToolCalls
  /\ \E a1 \in EarlierActions, a3 \in EarlierActions :
       LET earlier == <<a1, a1, a3>>
           h == [i \in 1..3 |->
                   CycleEntry(i - 1, earlier[i], Ok, [input |-> 2, output |-> 1])]
       IN /\ config \in
               {c \in [maxCycles : {3 + MaxCycles},
                       maxConsecutiveErrors : 1..MaxErrors,
                       safety : Safeties] :
                  \A i \in 1..3 : validateAction(earlier[i], c.safety).allowed}
          /\ history = h
          /\ executed = [i \in 1..3 |-> [cycle |-> i - 1, action |-> earlier[i]]]
          /\ cyclesJsonl = [i \in 1..3 |-> LogEntry(h[i], BudgetAfter(i - 1))]
  /\ pc = "loopTop"
  /\ cycle = 3
  /\ consecutiveErrors = 0
  /\ budget = BudgetAfter(3)
  /\ elapsed = 0
  /\ vlmResult = NoVlmResult
  /\ summaryJson = <<>>
  /\ result = NoResult
  /\ denial = ""
  /\ page = 0
  /\ executor = 0
  /\ taskWithContext = NoTask
  /\ vlmResponse = NoContent

NextLoop ==
  \/ MaxCyclesReached
  \/ BudgetCheck
  \/ Screenshot
  \/ RetryScreenshot
  \/ AnalyzeFrame
  \/ BlockedAction
  \/ TerminalAction
  \/ ExecuteAction
  \/ CatchError

(***************************************************************************)
(* The HTTP server: Recording Engine and Console Capture of one page.      *)
(* The page is registered (POST /pages has answered) and stays open.       *)
(***************************************************************************)
RecordingState(session, capture, startIndex, firstLog) ==
  [isRecording |-> TRUE, frameCount |-> 0, cdpSession |-> session,
   frameBuffer |-> <<>>, captureConsoleLogs |-> capture,
   recordingStartIndex |-> startIndex,
   \* not fields of the program: the id of the first entry appended after the
   \* state was created, and the entries appended while isRecording was true
   \* that no console clear has removed since
   firstLog |-> firstLog, window |-> <<>>]

Handler(id, kind, at, capture, rec, frameCount, logs) ==
  [id |-> id, kind |-> kind, pc |-> at, captureConsoleLogs |-> capture,
   recording |-> rec, frameCount |-> frameCount, consoleLogs |-> logs]

Response(kind, status, rec, frameCount, logs) ==
  [kind |-> kind, status |-> status, recording |-> rec,
   frameCount |-> frameCount, consoleLogs |-> logs, error |-> ""]

\* res.status(404).json({ error: "page not found" })
NotFound(kind) ==
  [Response(kind, 404, 0, 0, <<>>) EXCEPT !.error = "page not found"]

\* res.status(409).json({ success: false, error })
Conflict(kind, error) ==
  [Response(kind, 409, recording, 0, <<>>) EXCEPT !.error = error]

\* res.status(500).json({ success: false, error: err.message })
InternalError(kind, rec) ==
  [Response(kind, 500, rec, 0, <<>>) EXCEPT !.error = "err.message"]

NoResponse == Response("none", 0, 0, 0, <<>>)

\* entry.recording?.isRecording
IsRecording == recording # 0 /\ recordings[recording].isRecording

\* entry.consoleLogs.slice(recordingStartIndex)
Slice(logs, start) == SubSeq(logs, start + 1, Len(logs))

\* GET /pages/:name/recording/status
RecordingStatus ==
  [isRecording |-> IsRecording,
   frameCount |-> IF recording # 0 THEN recordings[recording].frameCount ELSE -1,
   consoleLogCount |->
     IF recording # 0
     THEN Len(consoleLogs) - recordings[recording].recordingStartIndex
     ELSE 0,
   defined |-> recording # 0]

\* a page of the browser context; closeHandler: page.on("close", ...) was called
BrowserPage == [open |-> TRUE, closeHandler |-> FALSE]

\* entry = { page, targetId, consoleLogs: [] }; the target id of page p is p;
\* consoleSession is "none" while undefined, then "attached" or "detached"
PageEntry(p) == [page |-> p, targetId |-> p, consoleSession |-> "none"]

\* the page of the first entry, the one the recording variables belong to, is
\* open
EntryPageOpen == browserPages # <<>> /\ browserPages[1].open

\* one POST /pages for the name has completed
PageRegistered ==
  /\ registry = 1
  /\ pageEntries = <<[PageEntry(1) EXCEPT !.consoleSession = "attached"]>>
  /\ browserPages = <<[BrowserPage EXCEPT !.closeHandler = TRUE]>>
  /\ posts = {}
  /\ deletes = {}
  /\ pageResponses = <<>>
  /\ nextPost = 1
  /\ nextDelete = 1

RecInit ==
  /\ consoleLogs = <<>>
  /\ recording = 0
  /\ recordings = <<>>
  /\ sessions = <<>>
  /\ handlers = {}
  /\ acks = {}
  /\ lastResponse = NoResponse
  /\ nextRequest = 1
  /\ nextLog = 1
  /\ nextFrame = 1
  /\ startsSinceStop = 0
  /\ serverExit = FALSE

\* Runtime.consoleAPICalled / Runtime.exceptionThrown
ConsoleEvent ==
  /\ UNCHANGED notRecVars
  /\ ~serverExit
  /\ nextLog <= MaxLogs
  /\ consoleLogs' = Append(consoleLogs, nextLog)
  /\ nextLog' = nextLog + 1
  /\ recordings' = [k \in DOMAIN recordings |->
                      IF recordings[k].isRecording
                      THEN [recordings[k] EXCEPT !.window = Append(@, nextLog)]
                      ELSE recordings[k]]
  /\ UNCHANGED <<recording, sessions, handlers, acks, lastResponse,
                 nextRequest, nextFrame, startsSinceStop, serverExit>>

\* DELETE /pages/:name/console
ClearConsole ==
  /\ UNCHANGED notRecVars
  /\ ~serverExit
  /\ consoleLogs' = <<>>
  /\ recordings' = [k \in DOMAIN recordings |->
                      [recordings[k] EXCEPT !.window = <<>>]]
  /\ UNCHANGED <<recording, sessions, handlers, acks, lastResponse,
                 nextRequest, nextLog, nextFrame, startsSinceStop, serverExit>>

\* a start that answers 409 and empties the frames of the active recording
StartRequestRestarts ==
  /\ UNCHANGED notRecVars
  /\ ~serverExit
  /\ IF registry = 0
     THEN /\ lastResponse' = NotFound("start")
          /\ UNCHANGED <<handlers, nextRequest, recordings>>
     ELSE IF IsRecording
     THEN /\ lastResponse' = Conflict("start", "Recording already in progress")
          /\ recordings' = [recordings EXCEPT ![recording].frameBuffer = <<>>,
                                              ![recording].frameCount = 0]
          /\ UNCHANGED <<handlers, nextRequest>>
     ELSE /\ nextRequest <= MaxRequests
          /\ \E capture \in BOOLEAN :
               handlers' = handlers \cup
                 {Handler(nextRequest, "start", "newCDPSession", capture, 0, 0,
                          <<>>)}
          /\ nextRequest' = nextRequest + 1
          /\ UNCHANGED <<lastResponse, recordings>>
  /\ UNCHANGED <<consoleLogs, recording, sessions, acks, nextLog,
                 nextFrame, startsSinceStop, serverExit>>

\* POST recording/start up to `await context.newCDPSession(entry.page)`
StartRequest ==
  /\ UNCHANGED notRecVars
  /\ ~serverExit
  /\ IF registry = 0
     THEN /\ lastResponse' = NotFound("start")
          /\ UNCHANGED <<handlers, nextRequest>>
     ELSE IF IsRecording
     THEN /\ lastResponse' = Conflict("start", "Recording already in progress")
          /\ UNCHANGED <<handlers, nextRequest>>
     ELSE /\ nextRequest <= MaxRequests
          /\ \E capture \in BOOLEAN :
               handlers' = handlers \cup
                 {Handler(nextRequest, "start", "newCDPSession", capture, 0, 0,
                          <<>>)}
          /\ nextRequest' = nextRequest + 1
          /\ UNCHANGED lastResponse
  /\ UNCHANGED <<consoleLogs, recording, recordings, sessions, acks, nextLog,
                 nextFrame, startsSinceStop, serverExit>>

\* the session exists: entry.recording = {...}, the frame handler is
\* subscribed, Page.startScreencast is sent
StartSessionCreated(h) ==
  /\ UNCHANGED notRecVars
  /\ ~serverExit
  /\ h \in handlers /\ h.kind = "start" /\ h.pc = "newCDPSession"
  /\ EntryPageOpen
  /\ sessions' = Append(sessions, [attached |-> TRUE, screencast |-> FALSE])
  /\ recordings' = Append(recordings,
                          RecordingState(Len(sessions) + 1, h.captureConsoleLogs,
                                         Len(consoleLogs), nextLog))
  /\ recording' = Len(recordings) + 1
  /\ handlers' = (handlers \ {h}) \cup
                   {[h EXCEPT !.pc = "startScreencast",
                              !.recording = Len(recordings) + 1]}
  /\ UNCHANGED <<consoleLogs, acks, lastResponse, nextRequest, nextLog,
                 nextFrame, startsSinceStop, serverExit>>

\* Page.startScreencast answered: 200
StartScreencastDone(h) ==
  /\ UNCHANGED notRecVars
  /\ ~serverExit
  /\ h \in handlers /\ h.kind = "start" /\ h.pc = "startScreencast"
  /\ EntryPageOpen
  /\ sessions' = [sessions EXCEPT
                    ![recordings[h.recording].cdpSession].screencast = TRUE]
  /\ handlers' = handlers \ {h}
  /\ lastResponse' = Response("start", 200, h.recording, 0, <<>>)
  /\ startsSinceStop' = startsSinceStop + 1
  /\ UNCHANGED <<consoleLogs, recording, recordings, acks, nextRequest,
                 nextLog, nextFrame, serverExit>>

\* newCDPSession or Page.startScreencast threw: catch, 500
StartFailed(h) ==
  /\ UNCHANGED notRecVars
  /\ ~serverExit
  /\ h \in handlers /\ h.kind = "start"
  /\ recording' = 0
  /\ handlers' = handlers \ {h}
  /\ lastResponse' = InternalError("start", h.recording)
  /\ UNCHANGED <<consoleLogs, recordings, sessions, acks, nextRequest,
                 nextLog, nextFrame, startsSinceStop, serverExit>>

\* Page.screencastFrame on session s, up to `await cdpSession.send(ack)`
ScreencastFrame(s) ==
  /\ UNCHANGED notRecVars
  /\ ~serverExit
  /\ s \in DOMAIN sessions
  /\ sessions[s].attached /\ sessions[s].screencast
  /\ nextFrame <= MaxFrames
  /\ nextFrame' = nextFrame + 1
  /\ acks' = IF IsRecording
             THEN acks \cup {[session |-> s, frame |-> nextFrame]}
             ELSE acks
  /\ UNCHANGED <<consoleLogs, recording, recordings, sessions, handlers,
                 lastResponse, nextRequest, nextLog, startsSinceStop,
                 serverExit>>

\* a frame handler that counts a frame only while isRecording is still true
FrameAckedCountsWhileRecording(a) ==
  /\ UNCHANGED notRecVars
  /\ ~serverExit
  /\ a \in acks
  /\ sessions[a.session].attached
  /\ acks' = acks \ {a}
  /\ IF recording = 0
     THEN /\ serverExit' = TRUE
          /\ UNCHANGED recordings
     ELSE /\ recordings' = [recordings EXCEPT
               ![recording].frameBuffer = Append(@, a.frame),
               ![recording].frameCount =
                 IF recordings[recording].isRecording THEN @ + 1 ELSE @]
          /\ UNCHANGED serverExit
  /\ UNCHANGED <<consoleLogs, recording, sessions, handlers, lastResponse,
                 nextRequest, nextLog, nextFrame, startsSinceStop>>

\* the frame ack resolved: store the frame in entry.recording
FrameAcked(a) ==
  /\ UNCHANGED notRecVars
  /\ ~serverExit
  /\ a \in acks
  /\ sessions[a.session].attached
  /\ acks' = acks \ {a}
  /\ IF recording = 0
     THEN \* entry.recording is undefined: TypeError, an unhandled rejection
          /\ serverExit' = TRUE
          /\ UNCHANGED recordings
     ELSE /\ recordings' = [recordings EXCEPT
               ![recording].frameBuffer = Append(@, a.frame),
               ![recording].frameCount = @ + 1]
          /\ UNCHANGED serverExit
  /\ UNCHANGED <<consoleLogs, recording, sessions, handlers, lastResponse,
                 nextRequest, nextLog, nextFrame, startsSinceStop>>

\* the frame ack threw ("Session might be closed"): return
FrameAckFailed(a) ==
  /\ UNCHANGED notRecVars
  /\ ~serverExit
  /\ a \in acks
  /\ acks' = acks \ {a}
  /\ UNCHANGED <<consoleLogs, recording, recordings, sessions, handlers,
                 lastResponse, nextRequest, nextLog, nextFrame,
                 startsSinceStop, serverExit>>

\* POST recording/stop up to `await recording.cdpSession.send("Page.stopScreencast")`
StopRequest ==
  /\ UNCHANGED notRecVars
  /\ ~serverExit
  /\ IF ~IsRecording
     THEN /\ lastResponse' = Conflict("stop", "No recording in progress")
          /\ UNCHANGED <<handlers, nextRequest, recordings, startsSinceStop>>
     ELSE /\ nextRequest <= MaxRequests
          /\ recordings' = [recordings EXCEPT ![recording].isRecording = FALSE]
          /\ handlers' = handlers \cup
               {Handler(nextRequest, "stop", "stopScreencast", FALSE, recording,
                        0, <<>>)}
          /\ nextRequest' = nextRequest + 1
          /\ startsSinceStop' = 0
          /\ UNCHANGED lastResponse
  /\ UNCHANGED <<consoleLogs, recording, sessions, acks, nextLog, nextFrame,
                 serverExit>>

\* after the screencast teardown: frameCount, the console slice, and on to
\* `await encodeFramesToVideo(...)` or `await entry.page.title()`
StopCollect(h) ==
  LET rec == recordings[h.recording] IN
  handlers' = (handlers \ {h}) \cup
    {[h EXCEPT !.frameCount = rec.frameCount,
               !.consoleLogs = IF rec.captureConsoleLogs
                               THEN Slice(consoleLogs, rec.recordingStartIndex)
                               ELSE <<>>,
               !.pc = IF Len(rec.frameBuffer) > 0 THEN "encode" ELSE "title"]}

\* Page.stopScreencast answered
StopScreencastDone(h) ==
  /\ UNCHANGED notRecVars
  /\ ~serverExit
  /\ h \in handlers /\ h.kind = "stop" /\ h.pc = "stopScreencast"
  /\ sessions[recordings[h.recording].cdpSession].attached
  /\ sessions' = [sessions EXCEPT
                    ![recordings[h.recording].cdpSession].screencast = FALSE]
  /\ handlers' = (handlers \ {h}) \cup {[h EXCEPT !.pc = "detach"]}
  /\ UNCHANGED <<consoleLogs, recording, recordings, acks, lastResponse,
                 nextRequest, nextLog, nextFrame, startsSinceStop, serverExit>>

\* cdpSession.detach() resolved
StopDetachDone(h) ==
  /\ UNCHANGED notRecVars
  /\ ~serverExit
  /\ h \in handlers /\ h.kind = "stop" /\ h.pc = "detach"
  /\ sessions' = [sessions EXCEPT
                    ![recordings[h.recording].cdpSession].attached = FALSE]
  /\ StopCollect(h)
  /\ UNCHANGED <<consoleLogs, recording, recordings, acks, lastResponse,
                 nextRequest, nextLog, nextFrame, startsSinceStop, serverExit>>

\* Page.stopScreencast or detach threw ("Session might already be closed")
StopTeardownFailed(h) ==
  /\ UNCHANGED notRecVars
  /\ ~serverExit
  /\ h \in handlers /\ h.kind = "stop" /\ h.pc \in {"stopScreencast", "detach"}
  /\ StopCollect(h)
  /\ UNCHANGED <<consoleLogs, recording, recordings, sessions, acks,
                 lastResponse, nextRequest, nextLog, nextFrame,
                 startsSinceStop, serverExit>>

\* encodeFramesToVideo reads the frames of the buffer as they are now and
\* resolves; key frames are written
StopEncodeDone(h) ==
  /\ UNCHANGED notRecVars
  /\ ~serverExit
  /\ h \in handlers /\ h.kind = "stop" /\ h.pc = "encode"
  /\ handlers' = (handlers \ {h}) \cup {[h EXCEPT !.pc = "title"]}
  /\ UNCHANGED <<consoleLogs, recording, recordings, sessions, acks,
                 lastResponse, nextRequest, nextLog, nextFrame,
                 startsSinceStop, serverExit>>

\* a catch block of stop that answers 500 and leaves entry.recording as it is
StopFailedKeepsRecording(h) ==
  /\ UNCHANGED notRecVars
  /\ ~serverExit
  /\ h \in handlers /\ h.kind = "stop" /\ h.pc \in {"encode", "title"}
  /\ recording' = recording
  /\ handlers' = handlers \ {h}
  /\ lastResponse' = InternalError("stop", h.recording)
  /\ UNCHANGED <<consoleLogs, recordings, sessions, acks, nextRequest, nextLog,
                 nextFrame, startsSinceStop, serverExit>>

\* page.title() settled; the summary is written: 200
StopDone(h) ==
  /\ UNCHANGED notRecVars
  /\ ~serverExit
  /\ h \in handlers /\ h.kind = "stop" /\ h.pc = "title"
  /\ recording' = 0
  /\ handlers' = handlers \ {h}
  /\ lastResponse' = Response("stop", 200, h.recording, h.frameCount,
                              h.consoleLogs)
  /\ UNCHANGED <<consoleLogs, recordings, sessions, acks, nextRequest, nextLog,
                 nextFrame, startsSinceStop, serverExit>>

\* the encoder, a key-frame write or the summary write threw: catch, 500
StopFailed(h) ==
  /\ UNCHANGED notRecVars
  /\ ~serverExit
  /\ h \in handlers /\ h.kind = "stop" /\ h.pc \in {"encode", "title"}
  /\ recording' = 0
  /\ handlers' = handlers \ {h}
  /\ lastResponse' = InternalError("stop", h.recording)
  /\ UNCHANGED <<consoleLogs, recordings, sessions, acks, nextRequest, nextLog,
                 nextFrame, startsSinceStop, serverExit>>

\* the recording endpoints and the screencast of the page
NextFrames ==
  \/ StartRequest
  \/ StopRequest
  \/ \E h \in handlers : StartSessionCreated(h)
  \/ \E h \in handlers : StartScreencastDone(h)
  \/ \E h \in handlers : StartFailed(h)
  \/ \E h \in handlers : StopScreencastDone(h)
  \/ \E h \in handlers : StopDetachDone(h)
  \/ \E h \in handlers : StopTeardownFailed(h)
  \/ \E h \in handlers : StopEncodeDone(h)
  \/ \E h \in handlers : StopDone(h)
  \/ \E h \in handlers : StopFailed(h)
  \/ \E s \in DOMAIN sessions : ScreencastFrame(s)
  \/ \E a \in acks : FrameAcked(a)
  \/ \E a \in acks : FrameAckFailed(a)

\* recording/start has answered 200 for the registered page: the recording
\* state, its session and the screencast exist, no frame has been delivered;
\* the requests are counted from here on
RecordingStarted ==
  /\ consoleLogs = <<>>
  /\ recording = 1
  /\ recordings = <<RecordingState(1, TRUE, 0, 1)>>
  /\ sessions = <<[attached |-> TRUE, screencast |-> TRUE]>>
  /\ handlers = {}
  /\ acks = {}
  /\ lastResponse = Response("start", 200, 1, 0, <<>>)
  /\ nextRequest = 1
  /\ nextLog = 1
  /\ nextFrame = 1
  /\ startsSinceStop = 1
  /\ serverExit = FALSE

\* ... and its console
NextRec ==
  \/ ConsoleEvent
  \/ ClearConsole
  \/ NextFrames

(***************************************************************************)
(* The HTTP server: the page registry, for one page name (POST /pages,     *)
(* DELETE /pages/:name, the close event of a page).                        *)
(***************************************************************************)
PostHandler(id, at, p, e) == [id |-> id, pc |-> at, page |-> p, entry |-> e]

DeleteHandler(id, at, e, session) ==
  [id |-> id, pc |-> at, entry |-> e, session |-> session]

OpenPages == {p \in DOMAIN browserPages : browserPages[p].open}

\* The response of a page endpoint; open is not part of it: the pages that
\* were open when it was sent.
PageResponse(kind, id, status, targetId) ==
  [kind |-> kind, request |-> id, status |-> status, targetId |-> targetId,
   open |-> OpenPages]

\* nothing has been created for the name
PagesInit ==
  /\ registry = 0
  /\ pageEntries = <<>>
  /\ browserPages = <<>>
  /\ posts = {}
  /\ deletes = {}
  /\ pageResponses = <<>>
  /\ nextPost = 1
  /\ nextDelete = 1

\* POST /pages up to `await context.newPage()`, or to the response when the
\* name is registered
PostRequest ==
  /\ UNCHANGED notPagesVars
  /\ UNCHANGED recVars
  /\ nextPost <= MaxPosts
  /\ nextPost' = nextPost + 1
  /\ IF registry # 0
     THEN /\ pageResponses' =
               Append(pageResponses,
                      PageResponse("post", nextPost, 200,
                                   pageEntries[registry].targetId))
          /\ UNCHANGED posts
     ELSE /\ posts' = posts \cup {PostHandler(nextPost, "newPage", 0, 0)}
          /\ UNCHANGED pageResponses
  /\ UNCHANGED <<registry, pageEntries, browserPages, deletes, nextDelete>>

\* context.newPage() resolved; setViewportSize and getTargetId are awaited
PostPageCreated(h) ==
  /\ UNCHANGED notPagesVars
  /\ UNCHANGED recVars
  /\ h \in posts /\ h.pc = "newPage"
  /\ browserPages' = Append(browserPages, BrowserPage)
  /\ posts' = (posts \ {h}) \cup
                {[h EXCEPT !.pc = "getTargetId", !.page = Len(browserPages) + 1]}
  /\ UNCHANGED <<registry, pageEntries, deletes, pageResponses, nextPost,
                 nextDelete>>

\* context.newPage() rejected or timed out: 500
PostNewPageFailed(h) ==
  /\ UNCHANGED notPagesVars
  /\ UNCHANGED recVars
  /\ h \in posts /\ h.pc = "newPage"
  /\ posts' = posts \ {h}
  /\ pageResponses' = Append(pageResponses, PageResponse("post", h.id, 500, 0))
  /\ UNCHANGED <<registry, pageEntries, browserPages, deletes, nextPost,
                 nextDelete>>

\* getTargetId resolved: entry = {...}; registry.set(name, entry);
\* setupConsoleCapture is awaited
PostEntryRegistered(h) ==
  /\ UNCHANGED notPagesVars
  /\ UNCHANGED recVars
  /\ h \in posts /\ h.pc = "getTargetId"
  /\ browserPages[h.page].open
  /\ pageEntries' = Append(pageEntries, PageEntry(h.page))
  /\ registry' = Len(pageEntries) + 1
  /\ posts' = (posts \ {h}) \cup
                {[h EXCEPT !.pc = "setupConsoleCapture",
                           !.entry = Len(pageEntries) + 1]}
  /\ UNCHANGED <<browserPages, deletes, pageResponses, nextPost, nextDelete>>

\* setViewportSize or getTargetId rejected: 500
PostTargetIdFailed(h) ==
  /\ UNCHANGED notPagesVars
  /\ UNCHANGED recVars
  /\ h \in posts /\ h.pc = "getTargetId"
  /\ posts' = posts \ {h}
  /\ pageResponses' = Append(pageResponses, PageResponse("post", h.id, 500, 0))
  /\ UNCHANGED <<registry, pageEntries, browserPages, deletes, nextPost,
                 nextDelete>>

\* setupConsoleCapture returned, with a console session or after its catch;
\* page.on("close", ...); the response
PostDone(h) ==
  /\ UNCHANGED notPagesVars
  /\ UNCHANGED recVars
  /\ h \in posts /\ h.pc = "setupConsoleCapture"
  /\ \E captured \in BOOLEAN :
       /\ captured => browserPages[h.page].open
       /\ pageEntries' = [pageEntries EXCEPT ![h.entry].consoleSession =
                            IF captured THEN "attached" ELSE "none"]
  /\ browserPages' = [browserPages EXCEPT ![h.page].closeHandler = TRUE]
  /\ posts' = posts \ {h}
  /\ pageResponses' =
       Append(pageResponses,
              PageResponse("post", h.id, 200, pageEntries[h.entry].targetId))
  /\ UNCHANGED <<registry, deletes, nextPost, nextDelete>>

\* Page p closes. Its close handler, when it has one, detaches the console
\* session of the entry made for p and runs registry.delete(name).
ClosePage(p) ==
  /\ browserPages' = [browserPages EXCEPT ![p].open = FALSE]
  /\ IF browserPages[p].open /\ browserPages[p].closeHandler
     THEN /\ pageEntries' =
               [e \in DOMAIN pageEntries |->
                  IF pageEntries[e].page = p
                       /\ pageEntries[e].consoleSession = "attached"
                  THEN [pageEntries[e] EXCEPT !.consoleSession = "detached"]
                  ELSE pageEntries[e]]
          /\ registry' = 0
     ELSE UNCHANGED <<registry, pageEntries>>

\* the page is closed from outside the server
PageClosed(p) ==
  /\ UNCHANGED notPagesVars
  /\ UNCHANGED recVars
  /\ p \in OpenPages
  /\ ClosePage(p)
  /\ UNCHANGED <<posts, deletes, pageResponses, nextPost, nextDelete>>

\* where a DELETE handler goes on after the recording block
AfterRecording(d) ==
  IF pageEntries[d.entry].consoleSession # "none" THEN "detachConsole"
  ELSE "close"

\* DELETE /pages/:name up to its first await, or 404
DeleteRequest ==
  /\ UNCHANGED notPagesVars
  /\ UNCHANGED recVars
  /\ nextDelete <= MaxDeletes
  /\ nextDelete' = nextDelete + 1
  /\ IF registry = 0
     THEN /\ pageResponses' =
               Append(pageResponses, PageResponse("delete", nextDelete, 404, 0))
          /\ UNCHANGED deletes
     ELSE /\ deletes' = deletes \cup
               {IF registry = 1 /\ IsRecording
                THEN DeleteHandler(nextDelete, "stopScreencast", registry,
                                   recordings[recording].cdpSession)
                ELSE DeleteHandler(nextDelete,
                                   AfterRecording([entry |-> registry]),
                                   registry, 0)}
          /\ UNCHANGED pageResponses
  /\ UNCHANGED <<registry, pageEntries, browserPages, posts, nextPost>>

\* Page.stopScreencast answered; entry.recording.cdpSession.detach() is
\* called, or throws at once when entry.recording is undefined by now
DeleteStopScreencastDone(d) ==
  /\ UNCHANGED notPagesVars
  /\ d \in deletes /\ d.pc = "stopScreencast"
  /\ sessions[d.session].attached
  /\ browserPages[pageEntries[d.entry].page].open
  /\ sessions' = [sessions EXCEPT ![d.session].screencast = FALSE]
  /\ deletes' = (deletes \ {d}) \cup
                  {IF recording = 0
                   THEN [d EXCEPT !.pc = AfterRecording(d)]
                   ELSE [d EXCEPT !.pc = "detachRecording",
                                  !.session = recordings[recording].cdpSession]}
  /\ UNCHANGED <<consoleLogs, recording, recordings, handlers, acks,
                 lastResponse, nextRequest, nextLog, nextFrame,
                 startsSinceStop, serverExit>>
  /\ UNCHANGED <<registry, pageEntries, browserPages, posts, pageResponses,
                 nextPost, nextDelete>>

\* cdpSession.detach() resolved
DeleteDetachRecordingDone(d) ==
  /\ UNCHANGED notPagesVars
  /\ d \in deletes /\ d.pc = "detachRecording"
  /\ sessions' = [sessions EXCEPT ![d.session].attached = FALSE]
  /\ deletes' = (deletes \ {d}) \cup {[d EXCEPT !.pc = AfterRecording(d)]}
  /\ UNCHANGED <<consoleLogs, recording, recordings, handlers, acks,
                 lastResponse, nextRequest, nextLog, nextFrame,
                 startsSinceStop, serverExit>>
  /\ UNCHANGED <<registry, pageEntries, browserPages, posts, pageResponses,
                 nextPost, nextDelete>>

\* Page.stopScreencast or detach rejected: the empty catch
DeleteRecordingCleanupFailed(d) ==
  /\ UNCHANGED notPagesVars
  /\ UNCHANGED recVars
  /\ d \in deletes /\ d.pc \in {"stopScreencast", "detachRecording"}
  /\ deletes' = (deletes \ {d}) \cup {[d EXCEPT !.pc = AfterRecording(d)]}
  /\ UNCHANGED <<registry, pageEntries, browserPages, posts, pageResponses,
                 nextPost, nextDelete>>

\* entry.consoleSession.detach() resolved, or rejected into its empty catch
DeleteDetachConsoleDone(d) ==
  /\ UNCHANGED notPagesVars
  /\ UNCHANGED recVars
  /\ d \in deletes /\ d.pc = "detachConsole"
  /\ \E detached \in BOOLEAN :
       pageEntries' = [pageEntries EXCEPT ![d.entry].consoleSession =
                         IF detached THEN "detached" ELSE @]
  /\ deletes' = (deletes \ {d}) \cup {[d EXCEPT !.pc = "close"]}
  /\ UNCHANGED <<registry, browserPages, posts, pageResponses, nextPost,
                 nextDelete>>

\* await entry.page.close(): the page closes, if it is still open
DeletePageClosed(d) ==
  /\ UNCHANGED notPagesVars
  /\ UNCHANGED recVars
  /\ d \in deletes /\ d.pc = "close"
  /\ ClosePage(pageEntries[d.entry].page)
  /\ deletes' = (deletes \ {d}) \cup {[d EXCEPT !.pc = "closed"]}
  /\ UNCHANGED <<posts, pageResponses, nextPost, nextDelete>>

\* registry.delete(name); res.json({ success: true })
DeleteDone(d) ==
  /\ UNCHANGED notPagesVars
  /\ UNCHANGED recVars
  /\ d \in deletes /\ d.pc = "closed"
  /\ registry' = 0
  /\ deletes' = deletes \ {d}
  /\ pageResponses' = Append(pageResponses, PageResponse("delete", d.id, 200, 0))
  /\ UNCHANGED <<pageEntries, browserPages, posts, nextPost, nextDelete>>

\* POST /pages requests for one name, and pages closing
NextPages ==
  \/ PostRequest
  \/ \E h \in posts : PostPageCreated(h)
  \/ \E h \in posts : PostNewPageFailed(h)
  \/ \E h \in posts : PostEntryRegistered(h)
  \/ \E h \in posts : PostTargetIdFailed(h)
  \/ \E h \in posts : PostDone(h)
  \/ \E p \in DOMAIN browserPages : PageClosed(p)

\* one registered page: recordings are started on it, it is deleted, it closes
NextClose ==
  \/ StartRequest
  \/ \E h \in handlers : StartSessionCreated(h)
  \/ \E h \in handlers : StartScreencastDone(h)
  \/ \E h \in handlers : StartFailed(h)
  \/ DeleteRequest
  \/ \E d \in deletes : DeleteStopScreencastDone(d)
  \/ \E d \in deletes : DeleteDetachRecordingDone(d)
  \/ \E d \in deletes : DeleteRecordingCleanupFailed(d)
  \/ \E d \in deletes : DeleteDetachConsoleDone(d)
  \/ \E d \in deletes : DeletePageClosed(d)
  \/ \E d \in deletes : DeleteDone(d)
  \/ \E p \in DOMAIN browserPages : PageClosed(p)

(***************************************************************************)
(* serve(): shutdown (cleanup, signalHandler and errorHandler of           *)
(* src/src/index.ts).                                                      *)
(***************************************************************************)
\* cleanup() has not been called
NoCleanup == [pc |-> "idle", entry |-> 0, session |-> 0]

ShutdownIdle ==
  /\ cleaningUp = FALSE
  /\ cleanupCall = NoCleanup
  /\ context = TRUE
  /\ triggers = 0

\* cleanup() from its start to its first await: the loop over
\* registry.values() takes the entry of the name, if there is one
cleanup ==
  IF registry = 0 THEN [pc |-> "context", entry |-> 0, session |-> 0]
  ELSE IF registry = 1 /\ IsRecording
  THEN [pc |-> "stopScreencast", entry |-> registry,
        session |-> recordings[recording].cdpSession]
  ELSE [pc |-> AfterRecording([entry |-> registry]), entry |-> registry,
        session |-> 0]

\* a signal or an unhandled error while cleaningUp is false: cleanup() sets
\* the flag and runs to its first await; registry.clear() when nothing is
\* registered
ShutdownTriggered ==
  /\ ~serverExit
  /\ triggers < MaxTriggers
  /\ ~cleaningUp
  /\ triggers' = triggers + 1
  /\ cleaningUp' = TRUE
  /\ cleanupCall' = cleanup
  /\ UNCHANGED context
  /\ UNCHANGED <<loopVars, recVars, pagesVars, execVars, controllerVars,
                 samplerVars, callVars>>

\* a signal or an unhandled error while cleaningUp is true: cleanup() returns
\* at once and the handler goes on to process.exit
ShutdownTriggeredAgain ==
  /\ ~serverExit
  /\ triggers < MaxTriggers
  /\ cleaningUp
  /\ triggers' = triggers + 1
  /\ serverExit' = TRUE
  /\ UNCHANGED <<cleaningUp, cleanupCall, context>>
  /\ UNCHANGED <<consoleLogs, recording, recordings, sessions, handlers, acks,
                 lastResponse, nextRequest, nextLog, nextFrame, startsSinceStop>>
  /\ UNCHANGED <<loopVars, pagesVars, execVars, controllerVars, samplerVars,
                 callVars>>

\* Page.stopScreencast answered; entry.recording.cdpSession.detach() is
\* called, or throws at once when entry.recording is undefined by now
CleanupStopScreencastDone ==
  /\ ~serverExit
  /\ cleanupCall.pc = "stopScreencast"
  /\ sessions[cleanupCall.session].attached
  /\ browserPages[pageEntries[cleanupCall.entry].page].open
  /\ sessions' = [sessions EXCEPT ![cleanupCall.session].screencast = FALSE]
  /\ cleanupCall' =
       IF recording = 0
       THEN [cleanupCall EXCEPT !.pc = AfterRecording(cleanupCall)]
       ELSE [cleanupCall EXCEPT !.pc = "detachRecording",
                                !.session = recordings[recording].cdpSession]
  /\ UNCHANGED <<cleaningUp, context, triggers>>
  /\ UNCHANGED <<consoleLogs, recording, recordings, handlers, acks,
                 lastResponse, nextRequest, nextLog, nextFrame,
                 startsSinceStop, serverExit>>
  /\ UNCHANGED <<loopVars, pagesVars, execVars, controllerVars, samplerVars,
                 callVars>>

\* cdpSession.detach() resolved
CleanupDetachRecordingDone ==
  /\ ~serverExit
  /\ cleanupCall.pc = "detachRecording"
  /\ sessions[cleanupCall.session].attached
  /\ browserPages[pageEntries[cleanupCall.entry].page].open
  /\ sessions' = [sessions EXCEPT ![cleanupCall.session].attached = FALSE]
  /\ cleanupCall' = [cleanupCall EXCEPT !.pc = AfterRecording(cleanupCall)]
  /\ UNCHANGED <<cleaningUp, context, triggers>>
  /\ UNCHANGED <<consoleLogs, recording, recordings, handlers, acks,
                 lastResponse, nextRequest, nextLog, nextFrame,
                 startsSinceStop, serverExit>>
  /\ UNCHANGED <<loopVars, pagesVars, execVars, controllerVars, samplerVars,
                 callVars>>

\* Page.stopScreencast or detach rejected, the page having closed or the
\* session being detached: the empty catch
CleanupRecordingFailed ==
  /\ ~serverExit
  /\ cleanupCall.pc \in {"stopScreencast", "detachRecording"}
  /\ \/ ~sessions[cleanupCall.session].attached
     \/ ~browserPages[pageEntries[cleanupCall.entry].page].open
  /\ cleanupCall' = [cleanupCall EXCEPT !.pc = AfterRecording(cleanupCall)]
  /\ UNCHANGED <<cleaningUp, context, triggers>>
  /\ UNCHANGED <<loopVars, recVars, pagesVars, execVars, controllerVars,
                 samplerVars, callVars>>

\* entry.consoleSession.detach() resolved, or rejected into its empty catch
\* when the session was detached already
CleanupDetachConsoleDone ==
  /\ ~serverExit
  /\ cleanupCall.pc = "detachConsole"
  /\ pageEntries' = [pageEntries EXCEPT ![cleanupCall.entry].consoleSession =
                       "detached"]
  /\ cleanupCall' = [cleanupCall EXCEPT !.pc = "close"]
  /\ UNCHANGED <<cleaningUp, context, triggers>>
  /\ UNCHANGED <<registry, browserPages, posts, deletes, pageResponses,
                 nextPost, nextDelete>>
  /\ UNCHANGED <<loopVars, recVars, execVars, controllerVars, samplerVars,
                 callVars>>

\* await entry.page.close(): the page closes, if it is still open
CleanupPageClosed ==
  /\ ~serverExit
  /\ cleanupCall.pc = "close"
  /\ ClosePage(pageEntries[cleanupCall.entry].page)
  /\ cleanupCall' = [cleanupCall EXCEPT !.pc = "closed"]
  /\ UNCHANGED <<cleaningUp, context, triggers>>
  /\ UNCHANGED <<posts, deletes, pageResponses, nextPost, nextDelete>>
  /\ UNCHANGED <<loopVars, recVars, execVars, controllerVars, samplerVars,
                 callVars>>

\* the loop is over: registry.clear(), and context.close() is called
CleanupRegistryCleared ==
  /\ ~serverExit
  /\ cleanupCall.pc = "closed"
  /\ registry' = 0
  /\ cleanupCall' = [cleanupCall EXCEPT !.pc = "context"]
  /\ UNCHANGED <<cleaningUp, context, triggers>>
  /\ UNCHANGED <<pageEntries, browserPages, posts, deletes, pageResponses,
                 nextPost, nextDelete>>
  /\ UNCHANGED <<loopVars, recVars, execVars, controllerVars, samplerVars,
                 callVars>>

\* context.close() resolved: the context and every page still open in it are
\* closed, the close handlers run; server.close()
CleanupContextClosed ==
  /\ ~serverExit
  /\ cleanupCall.pc = "context"
  /\ context' = FALSE
  /\ browserPages' = [p \in DOMAIN browserPages |->
                        [browserPages[p] EXCEPT !.open = FALSE]]
  /\ pageEntries' =
       [e \in DOMAIN pageEntries |->
          IF /\ browserPages[pageEntries[e].page].open
             /\ browserPages[pageEntries[e].page].closeHandler
             /\ pageEntries[e].consoleSession = "attached"
          THEN [pageEntries[e] EXCEPT !.consoleSession = "detached"]
          ELSE pageEntries[e]]
  /\ registry' = IF \E p \in OpenPages : browserPages[p].closeHandler
                 THEN 0 ELSE registry
  /\ cleanupCall' = [cleanupCall EXCEPT !.pc = "done"]
  /\ UNCHANGED <<cleaningUp, triggers>>
  /\ UNCHANGED <<posts, deletes, pageResponses, nextPost, nextDelete>>
  /\ UNCHANGED <<loopVars, recVars, execVars, controllerVars, samplerVars,
                 callVars>>

\* cleanup() resolved: the handler that awaited it calls process.exit
CleanupExit ==
  /\ ~serverExit
  /\ cleanupCall.pc = "done"
  /\ serverExit' = TRUE
  /\ UNCHANGED <<cleaningUp, cleanupCall, context, triggers>>
  /\ UNCHANGED <<consoleLogs, recording, recordings, sessions, handlers, acks,
                 lastResponse, nextRequest, nextLog, nextFrame, startsSinceStop>>
  /\ UNCHANGED <<loopVars, pagesVars, execVars, controllerVars, samplerVars,
                 callVars>>

\* the page is recorded, or not, while the server is shut down
NextShutdown ==
  \/ StartRequest
  \/ \E h \in handlers : StartSessionCreated(h)
  \/ \E h \in handlers : StartScreencastDone(h)
  \/ \E h \in handlers : StartFailed(h)
  \/ \E p \in DOMAIN browserPages : PageClosed(p)
  \/ ShutdownTriggered
  \/ ShutdownTriggeredAgain
  \/ CleanupStopScreencastDone
  \/ CleanupDetachRecordingDone
  \/ CleanupRecordingFailed
  \/ CleanupDetachConsoleDone
  \/ CleanupPageClosed
  \/ CleanupRegistryCleared
  \/ CleanupContextClosed
  \/ CleanupExit

(***************************************************************************)
(* ActionExecutor (src/src/tools.ts).                                      *)
(***************************************************************************)
\* a kind that is not one of AGENT_TOOLS
UnknownNames == {"drag"}

\* action.input as the executor reads it: ref ("" when it is absent), x and y
\* both given or not, clear_first
ExecInputs == [ref : {"", "e1"}, xy : BOOLEAN, clear_first : BOOLEAN]

ExecAction(n, input) == [name |-> n, input |-> input]

ExecActions ==
  {ExecAction(n, input) : n \in ActionNames \cup UnknownNames,
                          input \in ExecInputs}

\* What the browser does during one call: resolveRef gives an element, gives
\* null or throws, and the page and element operations whose position in the
\* call is in failing throw.
Environments ==
  [resolveRef : {"element", "null", "throws"}, failing : SUBSET (1..MaxOps)]

\* How a method body ends: it returns value, or it throws error; ops are the
\* page and element operations it started.
Returned(value, ops) ==
  [thrown |-> FALSE, value |-> value, error |-> <<>>, ops |-> ops]
Thrown(error, ops) ==
  [thrown |-> TRUE, value |-> Failed(<<>>), error |-> error, ops |-> ops]

\* await op1; await op2; ...; return { success: true }
Perform(names, env) ==
  LET failingAt == {i \in DOMAIN names : i \in env.failing}
      first == CHOOSE i \in failingAt : \A j \in failingAt : i <= j
  IN IF failingAt = {}
     THEN Returned(Ok, names)
     ELSE Thrown(<<"err.message", names[first]>>, SubSeq(names, 1, first))

\* const element = await this.resolveRef(ref); if (!element) return failure;
\* then the operations on the element
WithElement(input, names, env) ==
  CASE env.resolveRef = "throws" -> Thrown(<<"err.message", "resolveRef">>, <<>>)
    [] env.resolveRef = "null" -> Returned(Failed(<<"Ref not found", input.ref>>), <<>>)
    [] env.resolveRef = "element" -> Perform(names, env)

executeClick(input, env) ==
  IF input.ref # ""
  THEN WithElement(input, <<"element.click">>, env)
  ELSE IF input.xy
  THEN Perform(<<"page.mouse.click">>, env)
  ELSE Returned(Failed(<<"click requires ref or x,y coordinates">>), <<>>)

executeType(input, env) ==
  IF input.ref # ""
  THEN WithElement(input,
                   IF input.clear_first
                   THEN <<"element.fill">>
                   ELSE <<"element.click", "page.keyboard.type">>,
                   env)
  ELSE Perform(IF input.clear_first
               THEN <<"page.keyboard.press", "page.keyboard.type">>
               ELSE <<"page.keyboard.type">>,
               env)

executeScroll(input, env) == Perform(<<"page.mouse.wheel">>, env)

executeNavigate(input, env) == Perform(<<"page.goto">>, env)

executeKeyboard(input, env) == Perform(<<"page.keyboard.press">>, env)

\* a timer, no page operation
executeWait(input, env) == Returned(Ok, <<>>)

executeHover(input, env) ==
  IF input.ref # ""
  THEN WithElement(input, <<"element.hover">>, env)
  ELSE IF input.xy
  THEN Perform(<<"page.mouse.move">>, env)
  ELSE Returned(Failed(<<"hover requires ref or x,y coordinates">>), <<>>)

\* resolveRef is called with whatever input.ref is; selectOption by value,
\* and by label when that rejects
executeSelect(input, env) ==
  CASE env.resolveRef = "throws" -> Thrown(<<"err.message", "resolveRef">>, <<>>)
    [] env.resolveRef = "null" -> Returned(Failed(<<"Ref not found", input.ref>>), <<>>)
    [] env.resolveRef = "element" ->
         IF 1 \notin env.failing
         THEN Returned(Ok, <<"element.selectOption.value">>)
         ELSE IF 2 \notin env.failing
         THEN Returned(Ok, <<"element.selectOption.value",
                             "element.selectOption.label">>)
         ELSE Thrown(<<"err.message", "element.selectOption.label">>,
                     <<"element.selectOption.value",
                       "element.selectOption.label">>)

\* a switch without the case for done and fail
switchWithoutTerminal(action, env) ==
  CASE action.name = "click" -> executeClick(action.input, env)
    [] action.name = "type" -> executeType(action.input, env)
    [] action.name = "scroll" -> executeScroll(action.input, env)
    [] action.name = "navigate" -> executeNavigate(action.input, env)
    [] action.name = "keyboard" -> executeKeyboard(action.input, env)
    [] action.name = "wait" -> executeWait(action.input, env)
    [] action.name = "hover" -> executeHover(action.input, env)
    [] action.name = "select" -> executeSelect(action.input, env)
    [] OTHER -> Returned(Failed(<<"Unknown action", action.name>>), <<>>)

\* the switch inside the try block of execute
switch(action, env) ==
  CASE action.name = "click" -> executeClick(action.input, env)
    [] action.name = "type" -> executeType(action.input, env)
    [] action.name = "scroll" -> executeScroll(action.input, env)
    [] action.name = "navigate" -> executeNavigate(action.input, env)
    [] action.name = "keyboard" -> executeKeyboard(action.input, env)
    [] action.name = "wait" -> executeWait(action.input, env)
    [] action.name = "hover" -> executeHover(action.input, env)
    [] action.name = "select" -> executeSelect(action.input, env)
    [] action.name \in {"done", "fail"} -> Returned(Ok, <<>>)
    [] OTHER -> Returned(Failed(<<"Unknown action", action.name>>), <<>>)

\* execute without its catch block
executeWithoutCatch(action, env) == switch(action, env)

\* try { switch } catch (err) { return { success: false, error: message } }
execute(action, env) ==
  LET body == switch(action, env)
  IN IF body.thrown
     THEN Returned(Failed(body.error), body.ops)
     ELSE body

NoExecution ==
  [action |-> ExecAction("none", [ref |-> "", xy |-> FALSE, clear_first |-> FALSE]),
   env |-> [resolveRef |-> "element", failing |-> {}],
   raised |-> FALSE,
   outcome |-> Returned(Ok, <<>>)]

ExecInit == execution = NoExecution

\* await executor.execute(action), the browser behaving as env says; raised
\* tells whether anything was thrown inside the call
Execute(a, env) ==
  /\ execution' = [action |-> a, env |-> env,
                   raised |-> switch(a, env).thrown,
                   outcome |-> execute(a, env)]
  /\ UNCHANGED <<loopVars, recVars, pagesVars, shutdownVars, controllerVars, samplerVars,
               callVars>>

NextExec == \E a \in ExecActions, env \in Environments : Execute(a, env)

\* execute called with a terminal action, as the tests of the executor do
TerminalActions ==
  {a \in ExecActions : a.name \in {"done", "fail"}}

\* one such call, at any moment of a run
ExecuteTerminal(a, env) ==
  /\ execution = NoExecution
  /\ Execute(a, env)

NextTerminal ==
  \/ \E a \in TerminalActions, env \in Environments : ExecuteTerminal(a, env)
  \/ MaxCyclesReached
  \/ BudgetCheck
  \/ Screenshot
  \/ RetryScreenshot
  \/ AnalyzeFrame
  \/ BlockedAction
  \/ TerminalAction
  \/ ExecuteAction
  \/ CatchError

(***************************************************************************)
(* BudgetController on its own (src/src/budget.ts).                        *)
(***************************************************************************)
\* the limits a controller is constructed with, each within reach of a few
\* reports or ticks, or out of reach
ControllerConfigs ==
  [maxCycles : {2, MaxReports}, maxTokens : {3, 100},
   maxCostMicroUSD : {18, 1000}, maxDurationMs : {1, 100}]

\* the token counts one cycle reports
TokenReports ==
  {[input |-> 0, output |-> 0], [input |-> 1, output |-> 0],
   [input |-> 1, output |-> 1], [input |-> 2, output |-> 1]}

\* firstDenial: the cycles counter at the first call that denied, -1 if none
Answer(res, b, el, firstDenial) ==
  [asked |-> TRUE, allowed |-> res.allowed, reason |-> res.reason,
   budget |-> b, elapsed |-> el, firstDenial |-> firstDenial]

NoAnswer ==
  [asked |-> FALSE, allowed |-> TRUE, reason |-> "",
   budget |-> [cycles |-> 0, inputTokens |-> 0, outputTokens |-> 0],
   elapsed |-> 0, firstDenial |-> -1]

\* new BudgetController(config)
ControllerInit ==
  /\ controllerLimits \in ControllerConfigs
  /\ controller = [cycles |-> 0, inputTokens |-> 0, outputTokens |-> 0]
  /\ controllerElapsed = 0
  /\ reports = <<>>
  /\ answer = NoAnswer

\* budget.onCycleComplete(tokens)
OnCycleComplete(tokens) ==
  /\ Len(reports) < MaxReports
  /\ controller' = onCycleComplete(controller, tokens)
  /\ reports' = Append(reports, tokens)
  /\ UNCHANGED <<controllerLimits, controllerElapsed, answer>>
  /\ UNCHANGED <<loopVars, recVars, pagesVars, shutdownVars, execVars, samplerVars,
               callVars>>

\* time passes
Tick ==
  /\ controllerElapsed < MaxTicks
  /\ controllerElapsed' = controllerElapsed + 1
  /\ UNCHANGED <<controller, controllerLimits, reports, answer>>
  /\ UNCHANGED <<loopVars, recVars, pagesVars, shutdownVars, execVars, samplerVars,
               callVars>>

\* budget.canProceed()
CanProceed ==
  /\ LET res == canProceed(controller, controllerLimits, controllerElapsed)
     IN answer' = Answer(res, controller, controllerElapsed,
                         IF answer.firstDenial = -1 /\ ~res.allowed
                         THEN controller.cycles
                         ELSE answer.firstDenial)
  /\ UNCHANGED <<controller, controllerLimits, controllerElapsed, reports>>
  /\ UNCHANGED <<loopVars, recVars, pagesVars, shutdownVars, execVars, samplerVars,
               callVars>>

NextBudget ==
  \/ \E tokens \in TokenReports : OnCycleComplete(tokens)
  \/ Tick
  \/ CanProceed

\* no BudgetController is in use
ControllerIdle ==
  /\ controllerLimits = DefaultLimits
  /\ controller = [cycles |-> 0, inputTokens |-> 0, outputTokens |-> 0]
  /\ controllerElapsed = 0
  /\ reports = <<>>
  /\ answer = NoAnswer

(***************************************************************************)
(* FrameSampler (frame-sampler.ts).                                        *)
(***************************************************************************)
\* a buffer sharp cannot decode
Corrupt == <<>>

\* Screenshots, as four gray levels: black, half white, white, and two white
\* frames with some noise in one corner.
Frames ==
  {<<0, 0, 0, 0>>, <<0, 0, 60, 60>>, <<60, 60, 60, 60>>,
   <<40, 60, 60, 60>>, <<60, 40, 60, 60>>, Corrupt}

\* this.lastThumbnail = null
Null == <<>>

\* sharp(buffer).resize(size, size).grayscale().raw(): each pixel of the
\* thumbnail is the mean of two neighbouring pixels of the frame
makeThumbnail(frame) ==
  [i \in 1..(Len(frame) \div 2) |-> (frame[2 * i - 1] + frame[2 * i]) \div 2]

Abs(n) == IF n < 0 THEN -n ELSE n

\* the pixels among the first n whose difference is above the noise level
RECURSIVE diffPixels(_, _, _)
diffPixels(a, b, n) ==
  IF n = 0 THEN 0
  ELSE diffPixels(a, b, n - 1) + (IF Abs(a[n] - b[n]) > PixelNoise THEN 1 ELSE 0)

\* diffPixels / pixelCount, in percent
computeDiff(a, b) ==
  LET pixelCount == IF Len(a) < Len(b) THEN Len(a) ELSE Len(b)
  IN IF pixelCount = 0 THEN 100
     ELSE (diffPixels(a, b, pixelCount) * 100) \div pixelCount

\* diffThreshold, in percent
DiffThresholds == {DefaultDiffThresholdPercent, 50}

Captured(s, thumbnail) ==
  [sampler |-> [s EXCEPT !.forceNextCapture = FALSE,
                         !.lastThumbnail = thumbnail,
                         !.consecutiveSkips = 0],
   outcome |-> "true"]

Skipped(s) ==
  [sampler |-> [s EXCEPT !.consecutiveSkips = s.consecutiveSkips + 1],
   outcome |-> "false"]

\* makeThumbnail rejected
Rejected(s) == [sampler |-> s, outcome |-> "threw"]

\* hasChanged that takes a frame whose difference is at the threshold
hasChangedAtThreshold(s, frame) ==
  IF s.forceNextCapture
  THEN IF frame = Corrupt
       THEN Rejected([s EXCEPT !.forceNextCapture = FALSE])
       ELSE Captured(s, makeThumbnail(frame))
  ELSE IF frame = Corrupt
  THEN Rejected(s)
  ELSE LET thumbnail == makeThumbnail(frame)
       IN IF s.lastThumbnail = Null
          THEN Captured(s, thumbnail)
          ELSE IF computeDiff(s.lastThumbnail, thumbnail) >= s.diffThreshold
          THEN Captured(s, thumbnail)
          ELSE IF s.consecutiveSkips + 1 >= HeartbeatSkips
          THEN Captured(s, thumbnail)
          ELSE Skipped(s)

\* hasChanged that never takes an unchanged frame
hasChangedWithoutHeartbeat(s, frame) ==
  IF s.forceNextCapture
  THEN IF frame = Corrupt
       THEN Rejected([s EXCEPT !.forceNextCapture = FALSE])
       ELSE Captured(s, makeThumbnail(frame))
  ELSE IF frame = Corrupt
  THEN Rejected(s)
  ELSE LET thumbnail == makeThumbnail(frame)
       IN IF s.lastThumbnail = Null
          THEN Captured(s, thumbnail)
          ELSE IF computeDiff(s.lastThumbnail, thumbnail) > s.diffThreshold
          THEN Captured(s, thumbnail)
          ELSE Skipped(s)

\* hasChanged(frameBuffer) on a sampler in state s: the state it leaves and
\* what the caller gets
hasChanged(s, frame) ==
  IF s.forceNextCapture
  THEN IF frame = Corrupt
       THEN Rejected([s EXCEPT !.forceNextCapture = FALSE])
       ELSE Captured(s, makeThumbnail(frame))
  ELSE IF frame = Corrupt
  THEN Rejected(s)
  ELSE LET thumbnail == makeThumbnail(frame)
       IN IF s.lastThumbnail = Null
          THEN Captured(s, thumbnail)
          ELSE IF computeDiff(s.lastThumbnail, thumbnail) > s.diffThreshold
          THEN Captured(s, thumbnail)
          ELSE IF s.consecutiveSkips + 1 >= HeartbeatSkips
          THEN Captured(s, thumbnail)
          ELSE Skipped(s)

FreshSampler(threshold) ==
  [lastThumbnail |-> Null, consecutiveSkips |-> 0, forceNextCapture |-> FALSE,
   diffThreshold |-> threshold]

NoSamplerCall ==
  [outcome |-> "none", frame |-> Corrupt,
   before |-> FreshSampler(DefaultDiffThresholdPercent),
   after |-> FreshSampler(DefaultDiffThresholdPercent),
   forces |-> 0]

\* the sampler is fresh: no result yet, no frame fed yet
FreshBeat == [on |-> TRUE, frame |-> Corrupt, returns |-> <<>>]

NoBeat == [on |-> FALSE, frame |-> Corrupt, returns |-> <<>>]

\* new FrameSampler({ diffThreshold })
SamplerInit ==
  /\ sampler \in {FreshSampler(t) : t \in DiffThresholds}
  /\ samplerCall = NoSamplerCall
  /\ pendingForces = 0
  /\ heartbeat = FreshBeat
  /\ falseRun = 0

\* await sampler.hasChanged(frame)
HasChanged(frame) ==
  LET call == hasChanged(sampler, frame)
      returned == call.outcome = "true"
      repeated == /\ heartbeat.on
                  /\ call.outcome # "threw"
                  /\ ~sampler.forceNextCapture
                  /\ (heartbeat.returns = <<>> \/ heartbeat.frame = frame)
  IN /\ sampler' = call.sampler
     /\ samplerCall' = [outcome |-> call.outcome, frame |-> frame,
                        before |-> sampler, after |-> call.sampler,
                        forces |-> pendingForces]
     /\ pendingForces' = 0
     /\ heartbeat' = IF ~repeated THEN NoBeat
                     ELSE IF Len(heartbeat.returns) >= MaxBeats THEN heartbeat
                     ELSE [on |-> TRUE, frame |-> frame,
                           returns |-> Append(heartbeat.returns, returned)]
     /\ falseRun' = CASE call.outcome = "false" -> falseRun + 1
                      [] call.outcome = "true" -> 0
                      [] OTHER -> falseRun
     /\ UNCHANGED <<loopVars, recVars, pagesVars, shutdownVars, execVars, controllerVars,
                  callVars>>

\* sampler.forceCapture()
ForceCapture ==
  /\ pendingForces < MaxForces
  /\ sampler' = [sampler EXCEPT !.forceNextCapture = TRUE]
  /\ pendingForces' = pendingForces + 1
  /\ heartbeat' = NoBeat
  /\ UNCHANGED <<samplerCall, falseRun>>
  /\ UNCHANGED <<loopVars, recVars, pagesVars, shutdownVars, execVars, controllerVars,
                  callVars>>

\* sampler.reset()
Reset ==
  /\ sampler' = FreshSampler(sampler.diffThreshold)
  /\ pendingForces' = 0
  /\ heartbeat' = FreshBeat
  /\ UNCHANGED <<samplerCall, falseRun>>
  /\ UNCHANGED <<loopVars, recVars, pagesVars, shutdownVars, execVars, controllerVars,
                  callVars>>

NextSampler ==
  \/ \E frame \in Frames : HasChanged(frame)
  \/ ForceCapture
  \/ Reset

\* no FrameSampler is in use
SamplerIdle ==
  /\ sampler = FreshSampler(DefaultDiffThresholdPercent)
  /\ samplerCall = NoSamplerCall
  /\ pendingForces = 0
  /\ heartbeat = FreshBeat
  /\ falseRun = 0

(***************************************************************************)
(* compressHistory (vlm-client.ts).  A string is the sequence of its       *)
(* pieces; a line break is the piece "\n".                                 *)
(***************************************************************************)
\* older.filter((e) => e.result.success).length
RECURSIVE successCount(_)
successCount(older) ==
  IF older = <<>> THEN 0
  ELSE (IF Head(older).result.success THEN 1 ELSE 0) + successCount(Tail(older))

\* the cases of formatAction the actions of the model reach
formatAction(action) ==
  CASE action.name = "click" -> <<"click(undefined,undefined)">>
    [] action.name = "navigate" -> <<"navigate(", action.input.url, ")">>
    [] action.name = "done" ->
         <<"done(", IF action.input.success THEN "success" ELSE "failure", ")">>
    [] action.name = "fail" -> <<"fail(\"undefined\")">>
    [] OTHER -> <<action.name, "(", "{}", ")">>

summaryLine(older) ==
  <<"[", ToString(Len(older)), " earlier actions: ",
    ToString(successCount(older)), " succeeded, ",
    ToString(Len(older) - successCount(older)), " failed]">>

detailLine(entry) ==
  <<ToString(entry.cycle + 1), ". ">> \o formatAction(entry.action) \o <<" -> ">>
    \o (IF entry.result.success THEN <<"OK">>
        ELSE <<"FAILED: ">> \o entry.result.error)

\* lines.join("\n")
RECURSIVE join(_)
join(lines) ==
  IF lines = <<>> THEN <<>>
  ELSE IF Len(lines) = 1 THEN lines[1]
  ELSE lines[1] \o <<"\n">> \o join(Tail(lines))

\* for (const entry of recent) lines.push(...)
RECURSIVE detailLines(_)
detailLines(recent) ==
  IF recent = <<>> THEN <<>>
  ELSE <<detailLine(Head(recent))>> \o detailLines(Tail(recent))

compressHistory(entries, maxDetailed) ==
  IF Len(entries) = 0 THEN <<>>
  ELSE LET summary ==
             IF Len(entries) > maxDetailed
             THEN <<summaryLine(slice(entries, 0, Len(entries) - maxDetailed))>>
             ELSE <<>>
           recent == sliceFrom(entries, 0 - maxDetailed)
       IN join(summary \o detailLines(recent))

\* the error messages of failed actions: one line, and the several lines of
\* a browser error with its call log
ErrorMessages ==
  {<<"Ref \"e1\" not found">>,
   <<"Timeout 30000ms exceeded.", "\n", "Call log:">>}

HistoryResults == {Ok} \cup {Failed(msg) : msg \in ErrorMessages}

HistoryActions ==
  {AgentAction("click", "", FALSE), AgentAction("navigate", "/docs", FALSE)}

\* the histories a run can hold: entry i is the entry of cycle i - 1
Histories ==
  UNION {[1..n -> HistoryActions \X HistoryResults] : n \in 0..MaxEntries}

EntriesOf(h) ==
  [i \in 1..Len(h) |-> CycleEntry(i - 1, h[i][1], h[i][2], NoTokens)]

NoCompression == [called |-> FALSE, entries |-> <<>>, maxDetailed |-> 0,
                  out |-> <<>>]

\* compressHistory(entries, maxDetailed)
CompressHistory(h, maxDetailed) ==
  /\ compression' = [called |-> TRUE, entries |-> EntriesOf(h),
                     maxDetailed |-> maxDetailed,
                     out |-> compressHistory(EntriesOf(h), maxDetailed)]
  /\ UNCHANGED <<loopVars, recVars, pagesVars, shutdownVars, execVars, controllerVars,
                 samplerVars, extraction, encoding, truncation>>

NextHistory ==
  \E h \in Histories, maxDetailed \in 0..MaxDetailed :
    CompressHistory(h, maxDetailed)

(***************************************************************************)
(* Key frames of a stopped recording (index.ts: extractKeyFrames and its   *)
(* call in recording/stop).  A frame is named by its delivery number; a    *)
(* written file is the number in its name and the frame it holds.          *)
(***************************************************************************)
KeyFrameFile(i, frameBuffer, step) ==
  [number |-> i + 1, frame |-> frameBuffer[i * step + 1]]

\* the for loop of extractKeyFrames, from i on
RECURSIVE keyFrameLoop(_, _, _, _)
keyFrameLoop(i, frameBuffer, count, step) ==
  IF i < count /\ i * step < Len(frameBuffer)
  THEN <<KeyFrameFile(i, frameBuffer, step)>>
         \o keyFrameLoop(i + 1, frameBuffer, count, step)
  ELSE <<>>

\* a step of floor(length / count), with no lower limit
extractKeyFramesStepUnclamped(frameBuffer, count) ==
  IF Len(frameBuffer) = 0 THEN <<>>
  ELSE keyFrameLoop(0, frameBuffer, count, Len(frameBuffer) \div count)

extractKeyFrames(frameBuffer, count) ==
  IF Len(frameBuffer) = 0 THEN <<>>
  ELSE keyFrameLoop(0, frameBuffer, count,
                    Max(1, Len(frameBuffer) \div count))

\* the frame buffers of a recording: frames first, first + 1, ... in the
\* order they were pushed
FirstFrames == {1, 101}
\* the buffers the encode step is followed on
EncodedBuffers ==
  {[k \in 1..len |-> k] : len \in 0..MaxEncoded}

FrameBuffers ==
  {[k \in 1..len |-> first + k - 1] : len \in 0..MaxBuffer, first \in FirstFrames}

\* options.extractKeyFrames and options.keyFrameCount of the recording
KeyFrameOptions ==
  [extractKeyFrames : BOOLEAN, keyFrameCount : 1..MaxKeyFrameCount]

NoExtraction ==
  [called |-> FALSE, frameBuffer |-> <<>>,
   options |-> [extractKeyFrames |-> TRUE, keyFrameCount |-> 5],
   files |-> <<>>]

\* recording/stop, from "Extract key frames as images" to the summary
StopKeyFrames(frameBuffer, options) ==
  /\ extraction' =
       [called |-> TRUE, frameBuffer |-> frameBuffer, options |-> options,
        files |-> IF options.extractKeyFrames /\ Len(frameBuffer) > 0
                  THEN extractKeyFrames(frameBuffer, options.keyFrameCount)
                  ELSE <<>>]
  /\ UNCHANGED <<loopVars, recVars, pagesVars, shutdownVars, execVars, controllerVars,
                 samplerVars, compression, encoding, truncation>>

NextKeyFrames ==
  \E frameBuffer \in FrameBuffers, options \in KeyFrameOptions :
    StopKeyFrames(frameBuffer, options)

(***************************************************************************)
(* Encoding of a stopped recording (video-encoder.ts, and recording/stop   *)
(* from its encode step to its response).  A directory is the function     *)
(* from the number in a file's name to the frame the file holds.           *)
(***************************************************************************)
\* the file-system and process operations of the encode path that may reject
EncodeOps == {"mkdirOutput", "mkdirFrames", "writeFile", "mkdirTmp",
              "ffmpegRun", "writeKeyFrame", "writeSummary"}

\* ffmpeg: whether `ffmpeg -version` runs; failing: the operations that reject
EncodeEnvironments == [ffmpeg : BOOLEAN, failing : SUBSET EncodeOps]

NoFiles == [i \in {} |-> 0]

\* frames.map((frame, i) => writeFile(join(dir, `frame-${i}.jpg`), frame))
\* under Promise.all: every write is started, and when one rejects (here the
\* first) the others still land
writeFrames(frames, env) ==
  IF "writeFile" \in env.failing
  THEN [i \in 1..(Len(frames) - 1) |-> frames[i + 1]]
  ELSE [i \in 0..(Len(frames) - 1) |-> frames[i + 1]]

Encoded(thrown, path, framesDir, video) ==
  [thrown |-> thrown, path |-> path, framesDir |-> framesDir, video |-> video]

saveFramesAsImages(frames, env) ==
  IF "mkdirFrames" \in env.failing THEN Encoded(TRUE, "", NoFiles, <<>>)
  ELSE Encoded("writeFile" \in env.failing,
               IF "writeFile" \in env.failing THEN "" ELSE "framesDir",
               writeFrames(frames, env), <<>>)

\* an encoder that rejects when ffmpeg is not installed
encodeFramesToVideoNeedsFfmpeg(frames, env) ==
  IF Len(frames) = 0 THEN Encoded(TRUE, "", NoFiles, <<>>)
  ELSE IF "mkdirOutput" \in env.failing THEN Encoded(TRUE, "", NoFiles, <<>>)
  ELSE IF ~env.ffmpeg THEN Encoded(TRUE, "", NoFiles, <<>>)
  ELSE IF env.failing \cap {"mkdirTmp", "writeFile", "ffmpegRun"} # {}
  THEN Encoded(TRUE, "", NoFiles, <<>>)
  ELSE Encoded(FALSE, "outputPath", NoFiles, frames)

\* video: the frames ffmpeg encoded into outputPath; the temporary directory
\* is removed on every way out and leaves nothing
encodeFramesToVideo(frames, env) ==
  IF Len(frames) = 0 THEN Encoded(TRUE, "", NoFiles, <<>>)
  ELSE IF "mkdirOutput" \in env.failing THEN Encoded(TRUE, "", NoFiles, <<>>)
  ELSE IF ~env.ffmpeg THEN saveFramesAsImages(frames, env)
  ELSE IF env.failing \cap {"mkdirTmp", "writeFile", "ffmpegRun"} # {}
  THEN Encoded(TRUE, "", NoFiles, <<>>)
  ELSE Encoded(FALSE, "outputPath", NoFiles, frames)

\* the response of recording/stop and what the handler left behind;
\* recording: entry.recording after the handler, 0 for undefined
Stopped(status, videoPath, frameCount, encoded, entryRecording, encoderCalled, keyFramePaths, summaryWritten) ==
  [status |-> status, videoPath |-> videoPath, frameCount |-> frameCount,
   framesDir |-> encoded.framesDir, video |-> encoded.video,
   recording |-> entryRecording, encoderCalled |-> encoderCalled,
   keyFramePaths |-> keyFramePaths, summaryWritten |-> summaryWritten]

\* options.keyFrameCount ?? 5, the recording being started with its defaults
DefaultKeyFrameCount == 5

\* a stop that hands the buffer to the encoder whatever its length
stopFromEncodeAlwaysEncodes(frameBuffer, env) ==
  LET encoded == encodeFramesToVideo(frameBuffer, env)
      keyFramesThrow == Len(frameBuffer) > 0 /\ "writeKeyFrame" \in env.failing
  IN IF encoded.thrown \/ keyFramesThrow \/ "writeSummary" \in env.failing
     THEN Stopped(500, "", 0, encoded, 0, TRUE, <<>>, FALSE)
     ELSE Stopped(200, encoded.path, Len(frameBuffer), encoded, 0, TRUE,
                  extractKeyFrames(frameBuffer, DefaultKeyFrameCount), TRUE)

\* recording/stop from "Calculate duration" on: the try block and its catch
stopFromEncode(frameBuffer, env) ==
  LET encoderCalled == Len(frameBuffer) > 0
      encoded == IF encoderCalled
                 THEN encodeFramesToVideo(frameBuffer, env)
                 ELSE Encoded(FALSE, "outputPath", NoFiles, <<>>)
      keyFramesThrow == Len(frameBuffer) > 0 /\ "writeKeyFrame" \in env.failing
  IN IF encoded.thrown \/ keyFramesThrow \/ "writeSummary" \in env.failing
     THEN Stopped(500, "", 0, encoded, 0, encoderCalled, <<>>, FALSE)
     ELSE Stopped(200, encoded.path, Len(frameBuffer), encoded, 0,
                  encoderCalled,
                  IF Len(frameBuffer) > 0
                  THEN extractKeyFrames(frameBuffer, DefaultKeyFrameCount)
                  ELSE <<>>,
                  TRUE)

NoEncoding ==
  [called |-> FALSE, frameBuffer |-> <<>>,
   env |-> [ffmpeg |-> TRUE, failing |-> {}],
   outcome |-> Stopped(0, "", 0, Encoded(FALSE, "", NoFiles, <<>>), 1, FALSE,
                       <<>>, FALSE)]

\* recording/stop, after the screencast teardown, with nothing else running
StopEncode(frameBuffer, env) ==
  /\ encoding' = [called |-> TRUE, frameBuffer |-> frameBuffer, env |-> env,
                  outcome |-> stopFromEncode(frameBuffer, env)]
  /\ UNCHANGED <<loopVars, recVars, pagesVars, shutdownVars, execVars, controllerVars,
                 samplerVars, compression, extraction, truncation>>

NextEncode ==
  \E frameBuffer \in EncodedBuffers, env \in EncodeEnvironments :
    StopEncode(frameBuffer, env)

(***************************************************************************)
(* truncateSnapshot (src/src/perception-loop.ts).                          *)
(***************************************************************************)
Newline == "\n"

\* the fixed notice, character by character: two newlines, then a text
\* without any newline
notice == [i \in 1..NoticeLength |-> IF i <= 2 THEN Newline ELSE "."]

\* String.prototype.lastIndexOf(ch, fromIndex), indexes counted from 0:
\* fromIndex is clamped to the string, -1 when ch is not found
lastIndexOf(s, ch, fromIndex) ==
  LET from == Min(Max(fromIndex, 0), Len(s) - 1)
      found == {k \in 0..from : s[k + 1] = ch}
  IN IF found = {} THEN -1
     ELSE CHOOSE k \in found : \A other \in found : other <= k

truncateSnapshot(snapshot, maxChars) ==
  IF Len(snapshot) <= maxChars THEN snapshot
  ELSE LET cutoff == maxChars - Len(notice)
           lastNewline == lastIndexOf(snapshot, Newline, cutoff)
           cutPoint == IF lastNewline > 0 THEN lastNewline ELSE cutoff
       IN slice(snapshot, 0, cutPoint) \o notice

\* a snapshot of len characters whose newlines are at the indexes of nl
Snapshot(len, nl) == [i \in 1..len |-> IF i - 1 \in nl THEN Newline ELSE "a"]

\* snapshots shorter than the notice and snapshots a little longer than it,
\* with newlines near their start and around the notice's length
SnapshotLengths == (0..MaxOver) \cup (NoticeLength..(NoticeLength + MaxOver))

NewlineIndexes == {0, 1, MaxOver, NoticeLength + 1}

Snapshots ==
  {Snapshot(len, nl) : len \in SnapshotLengths, nl \in SUBSET NewlineIndexes}

\* caps below the notice's length, and caps that leave room for it
SnapshotCaps == (0..MaxOver) \cup (NoticeLength..(NoticeLength + MaxOver))

NoTruncation == [called |-> FALSE, snapshot |-> <<>>, maxChars |-> 0,
                 out |-> <<>>]

\* ariaSnapshot = truncateSnapshot(raw, this.config.maxSnapshotChars)
TruncateSnapshot(raw, maxSnapshotChars) ==
  /\ truncation' = [called |-> TRUE, snapshot |-> raw,
                    maxChars |-> maxSnapshotChars,
                    out |-> truncateSnapshot(raw, maxSnapshotChars)]
  /\ UNCHANGED <<loopVars, recVars, pagesVars, shutdownVars, execVars,
                 controllerVars, samplerVars, compression, extraction,
                 encoding>>

NextSnapshot ==
  \E raw \in Snapshots, maxSnapshotChars \in SnapshotCaps :
    TruncateSnapshot(raw, maxSnapshotChars)

\* no function has been called on its own
CallsIdle ==
  /\ compression = NoCompression
  /\ extraction = NoExtraction
  /\ encoding = NoEncoding
  /\ truncation = NoTruncation

\* the variables of the part a specification leaves out
LoopIdle ==
  /\ config = [maxCycles |-> 1, maxConsecutiveErrors |-> 1, safety |-> NoSafety]
  /\ vlm = {}
  /\ limits = DefaultLimits
  /\ pc = "idle"
  /\ cycle = 0
  /\ history = <<>>
  /\ consecutiveErrors = 0
  /\ budget = [cycles |-> 0, inputTokens |-> 0, outputTokens |-> 0]
  /\ elapsed = 0
  /\ vlmResult = NoVlmResult
  /\ cyclesJsonl = <<>>
  /\ summaryJson = <<>>
  /\ result = NoResult
  /\ executed = <<>>
  /\ denial = ""
  /\ page = 0
  /\ executor = 0
  /\ taskWithContext = NoTask
  /\ vlmResponse = NoContent

RecIdle == RecInit /\ PageRegistered

UnitsIdle ==
  ExecInit /\ ControllerIdle /\ SamplerIdle /\ CallsIdle /\ ShutdownIdle

\* runAgentLoop is called; the server part is left out
InitLoop == LoopInit /\ RecIdle /\ UnitsIdle

SpecLoop == InitLoop /\ [][NextLoop]_vars

\* runAgentLoop with a vision model that does not always call a tool
InitNoTool == LoopStart(TextResponses) /\ RecIdle /\ UnitsIdle

SpecNoTool == InitNoTool /\ [][NextLoop]_vars

\* a run of one cycle, and an executor that is handed terminal actions
OneCycleRun ==
  /\ vlm = ToolCalls
  /\ config \in [maxCycles : {1}, maxConsecutiveErrors : {1}, safety : Safeties]
  /\ limits = DefaultLimits
  /\ pc = "loopTop"
  /\ cycle = 0
  /\ history = <<>>
  /\ consecutiveErrors = 0
  /\ budget = [cycles |-> 0, inputTokens |-> 0, outputTokens |-> 0]
  /\ elapsed = 0
  /\ vlmResult = NoVlmResult
  /\ cyclesJsonl = <<>>
  /\ summaryJson = <<>>
  /\ result = NoResult
  /\ executed = <<>>
  /\ denial = ""
  /\ page = 0
  /\ executor = 0
  /\ taskWithContext = NoTask
  /\ vlmResponse = NoContent

InitTerminal == OneCycleRun /\ RecIdle /\ UnitsIdle

SpecTerminal == InitTerminal /\ [][NextTerminal]_vars

\* the same run from the top of its fourth cycle
InitStuck == ThreeCyclesDone /\ RecIdle /\ UnitsIdle

SpecStuck == InitStuck /\ [][NextLoop]_vars

\* serve() with one page registered; no agent loop runs
InitRec == RecInit /\ PageRegistered /\ LoopIdle /\ UnitsIdle

SpecRec == InitRec /\ [][NextRec]_vars

\* the same server with a silent console
SpecFrames == InitRec /\ [][NextFrames]_vars

\* the same server from the moment the page's recording has started
InitStarted == RecordingStarted /\ PageRegistered /\ LoopIdle /\ UnitsIdle

SpecStarted == InitStarted /\ [][NextFrames]_vars

\* serve() with one page registered, its recording started and the page
\* closed by DELETE or from outside
SpecClose == InitRec /\ [][NextClose]_vars

\* serve() with no page: POST /pages requests for one name
InitPages == PagesInit /\ RecInit /\ LoopIdle /\ UnitsIdle

SpecPages == InitPages /\ [][NextPages]_vars

\* calls of ActionExecutor.execute on a page that may fail in any way
InitExec ==
  ExecInit /\ LoopIdle /\ RecIdle /\ ControllerIdle /\ SamplerIdle /\ CallsIdle
    /\ ShutdownIdle

SpecExec == InitExec /\ [][NextExec]_vars

\* a BudgetController used through its public methods
InitBudget ==
  ControllerInit /\ LoopIdle /\ RecIdle /\ ExecInit /\ SamplerIdle /\ CallsIdle
    /\ ShutdownIdle

SpecBudget == InitBudget /\ [][NextBudget]_vars

\* a FrameSampler used through its public methods, one call at a time
InitSampler ==
  SamplerInit /\ LoopIdle /\ RecIdle /\ ExecInit /\ ControllerIdle /\ CallsIdle
    /\ ShutdownIdle

SpecSampler == InitSampler /\ [][NextSampler]_vars

\* calls of compressHistory on histories of every shape
InitHistory ==
  CallsIdle /\ LoopIdle /\ RecIdle /\ ExecInit /\ ControllerIdle /\ SamplerIdle
    /\ ShutdownIdle

SpecHistory == InitHistory /\ [][NextHistory]_vars

\* the key-frame step of recording/stop on buffers of every length
InitKeyFrames ==
  CallsIdle /\ LoopIdle /\ RecIdle /\ ExecInit /\ ControllerIdle /\ SamplerIdle
    /\ ShutdownIdle

SpecKeyFrames == InitKeyFrames /\ [][NextKeyFrames]_vars

\* recording/stop from its encode step on, in every environment
InitEncode ==
  CallsIdle /\ LoopIdle /\ RecIdle /\ ExecInit /\ ControllerIdle /\ SamplerIdle
    /\ ShutdownIdle

SpecEncode == InitEncode /\ [][NextEncode]_vars

\* calls of truncateSnapshot on snapshots and caps around the notice's length
InitSnapshot ==
  CallsIdle /\ LoopIdle /\ RecIdle /\ ExecInit /\ ControllerIdle /\ SamplerIdle
    /\ ShutdownIdle

SpecSnapshot == InitSnapshot /\ [][NextSnapshot]_vars

\* the registered page is recorded, or closes, while signals arrive
SpecShutdown == InitRec /\ [][NextShutdown]_vars

(***************************************************************************)
(* Properties of PerceptionLoop.run                                        *)
(***************************************************************************)
Terminal(entry) == entry.action.name \in {"done", "fail"}
Blocked(entry) == entry.result.error # <<>> /\ entry.result.error[1] = "Blocked:"
CycleIndices(log) == {log[i].cycle : i \in DOMAIN log}

\* C2: in cycles.jsonl no record whose action is done or fail is followed by
\* a further record: once a terminal action is recorded the run records
\* nothing more.
C2_TerminalEntryIsLast ==
  \A i \in DOMAIN cyclesJsonl :
    Terminal(cyclesJsonl[i]) => i = Len(cyclesJsonl)

\* C3: the cycles a run executes (the cycle indices it records in
\* cycles.jsonl) never outnumber the budget's maxCycles nor the loop's own
\* maxCycles.
C3_HardCycleLimit ==
  /\ Cardinality(CycleIndices(cyclesJsonl)) <= limits.maxCycles
  /\ Cardinality(CycleIndices(cyclesJsonl)) <= config.maxCycles

\* a cycle with a record of result.success = false in cycles.jsonl
CycleFailed(c) ==
  \E i \in DOMAIN cyclesJsonl :
    cyclesJsonl[i].cycle = c /\ ~cyclesJsonl[i].result.success

\* C4: no run records more than maxConsecutiveErrors failed cycles in a row.
C4_ConsecutiveErrorStop ==
  \A c \in CycleIndices(cyclesJsonl) :
    \E d \in c..(c + config.maxConsecutiveErrors) : ~CycleFailed(d)

\* what the safety configuration denies, in the words of the claim
ReadOnlyPermitted == {"scroll", "navigate", "wait", "hover"}
MatchesBlockedPattern(action) ==
  /\ action.name = "navigate"
  /\ \E i \in DOMAIN config.safety.blockedURLPatterns :
       RegExpTest(config.safety.blockedURLPatterns[i], action.input.url)
DeniedBySafety(action) ==
  /\ config.safety.configured
  /\ \/ config.safety.readOnlyMode
        /\ action.name \notin ReadOnlyPermitted \cup {"done", "fail"}
     \/ MatchesBlockedPattern(action)

\* C5: the executor is never invoked with an action the safety filter denies
\* (in read-only mode only with scroll, navigate, wait or hover; never with a
\* navigate to a url matching a blocked pattern); a denied action yields a
\* cycle entry with success=false and an error beginning "Blocked:", and
\* nothing is executed in that cycle.
C5_DeniedNeverDispatched ==
  /\ [](\A i \in DOMAIN executed :
          /\ ~DeniedBySafety(executed[i].action)
          /\ (config.safety.configured /\ config.safety.readOnlyMode)
               => executed[i].action.name \in ReadOnlyPermitted)
  /\ [](\A i \in DOMAIN history :
          Blocked(history[i]) =>
            /\ ~history[i].result.success
            /\ \A j \in DOMAIN executed : executed[j].cycle # history[i].cycle)
  /\ [][(pc = "validate" /\ DeniedBySafety(vlmResult.action)) =>
          /\ Len(history') = Len(history) + 1
          /\ Blocked(history'[Len(history')])
          /\ history'[Len(history')].action = vlmResult.action
          /\ executed' = executed]_vars

\* C5 witness: a run in read-only mode with blocked patterns has recorded a
\* blocked click and a blocked navigate.
C5_Witness ==
  /\ config.safety.configured /\ config.safety.readOnlyMode
  /\ \E i, j \in DOMAIN history :
       /\ Blocked(history[i]) /\ history[i].action.name = "click"
       /\ Blocked(history[j]) /\ history[j].action.name = "navigate"

C10_OneRecordPerCycle ==
  \A i, j \in DOMAIN cyclesJsonl :
    i < j => cyclesJsonl[i].cycle < cyclesJsonl[j].cycle

LastEntry == history[Len(history)]

\* C11: a run that returned has success = true only when its last cycle entry
\* is a done action with input.success = true, the summary and extractedData
\* being the action's; after a fail action it has success = false and the
\* action's reason as summary; a budget denial, a consecutive-error stop and
\* cycle exhaustion (summary "Max cycles reached (N)") have success = false.
C11_SuccessOnlyFromDone ==
  pc = "returned" =>
    /\ result.success =>
         /\ history # <<>>
         /\ LastEntry.action = AgentAction("done", "", TRUE)
         /\ result.summary = <<"action.input.summary">>
         /\ result.extractedData = TRUE
    /\ (history # <<>> /\ LastEntry.action.name = "fail") =>
         /\ ~result.success
         /\ result.summary = <<LastEntry.action.input.reason>>
    /\ (history # <<>> /\ LastEntry.action.name = "done") =>
         result.success = LastEntry.action.input.success
    /\ result.summary[1] \in {"Budget exceeded", "Max cycles reached",
                              "Stopped after consecutive errors"}
         => ~result.success
    /\ (~(cycle < config.maxCycles) /\ denial = "") =>
         result.summary = <<"Max cycles reached", ToString(config.maxCycles)>>

\* C11 witness: a run has returned success = true from a done action.
C11_Witness ==
  pc = "returned" /\ result.success /\ LastEntry.action.name = "done"

\* the cycle entries recorded for the current cycle
EntriesOfCycle == {i \in DOMAIN history : history[i].cycle = cycle}

\* C15: the page handle is re-acquired only from a failed first screenshot
\* of a cycle, which is taken once per cycle, and never during the retry; the
\* executor is always the one of the current page handle, so after a
\* successful retry this and all later actions go to the re-acquired page;
\* when the re-acquisition or the retry fails the cycle gets exactly one
\* entry, an error entry.
C15_OneReacquirePerCycle ==
  /\ [](executor = page)
  /\ [][page' # page =>
          /\ pc = "screenshot" /\ pc' = "retry"
          /\ page' = page + 1]_vars
  /\ [][pc' = "screenshot" => pc = "loopTop"]_vars
  /\ [][pc' = "retry" => pc = "screenshot"]_vars
  /\ [](pc = "retry" => EntriesOfCycle = {})
  /\ [][(pc = "retry" /\ pc' # "catch") => pc' = "analyze"]_vars
  /\ [][(pc \in {"screenshot", "retry"} /\ pc' = "catch") =>
          EntriesOfCycle = {}]_vars
  /\ [][pc = "catch" =>
          /\ history' = Append(history,
                               CycleEntry(cycle, ErrorAction,
                                          Failed(<<"exception">>), NoTokens))
          /\ cycle' \in {cycle, cycle + 1}]_vars

\* C15 witness: the page handle has been re-acquired once, the first cycle
\* was recorded as an error cycle, and cycle 1 executed an action on the
\* re-acquired page.
C15_Witness ==
  /\ page = 1
  /\ history # <<>> /\ history[1].action = ErrorAction
  /\ \E i \in DOMAIN executed : executed[i].cycle = 1

(***************************************************************************)
(* Properties of the Recording Engine and Console Capture                  *)
(***************************************************************************)
ScreencastSessions ==
  {s \in DOMAIN sessions : sessions[s].attached /\ sessions[s].screencast}

\* C1: a recording/start that answered 200 is not followed by another 200
\* before a stop, and no two screencast sessions created by start exist for
\* the page at once.
C1_AtMostOneStart ==
  /\ startsSinceStop <= 1
  /\ Cardinality(ScreencastSessions) <= 1

\* C7: while the page entry holds a recording state, its recordingStartIndex
\* is at most the length of the console log, so the consoleLogCount of the
\* status endpoint is never negative.
C7_StartIndexWithinLog ==
  /\ recording # 0 =>
       recordings[recording].recordingStartIndex <= Len(consoleLogs)
  /\ RecordingStatus.consoleLogCount >= 0

IsPrefix(p, q) == Len(p) <= Len(q) /\ SubSeq(q, 1, Len(p)) = p

\* C8: the consoleLogs of a stop response hold, in insertion order, every
\* entry appended between the start and the stop request (that no console
\* clear has removed) and no entry appended before the start; without
\* captureConsoleLogs they are empty.
C8_StopReturnsRecordedLogs ==
  (lastResponse.kind = "stop" /\ lastResponse.status = 200) =>
    LET rec == recordings[lastResponse.recording] IN
    IF rec.captureConsoleLogs
    THEN /\ IsPrefix(rec.window, lastResponse.consoleLogs)
         /\ \A i \in DOMAIN lastResponse.consoleLogs :
              lastResponse.consoleLogs[i] >= rec.firstLog
    ELSE lastResponse.consoleLogs = <<>>

\* C9: for every recording, frameCount equals the number of frames in the
\* frame buffer.
C9_FrameCountIsBufferLength ==
  \A k \in DOMAIN recordings :
    recordings[k].frameCount = Len(recordings[k].frameBuffer)

\* C9 witness: a stop has reached the encoder with a frame that was stored
\* before the stop request and one whose ack resolved after it.
C9_Witness ==
  \E h \in handlers :
    /\ h.kind = "stop" /\ h.pc = "encode"
    /\ h.frameCount >= 1
    /\ recordings[h.recording].frameCount > h.frameCount

\* C12: a start issued while the page is recording answers 409 "Recording
\* already in progress", a stop issued while it is not recording answers 409
\* "No recording in progress", and neither changes the recording state, the
\* frame buffers or the console log.
C12_ConflictsRejectedWithoutEffect ==
  /\ [][(StartRequest /\ IsRecording) =>
          /\ lastResponse' = Conflict("start", "Recording already in progress")
          /\ UNCHANGED <<recording, recordings, consoleLogs, sessions,
                         handlers, acks>>]_vars
  /\ [][(StopRequest /\ ~IsRecording) =>
          /\ lastResponse' = Conflict("stop", "No recording in progress")
          /\ UNCHANGED <<recording, recordings, consoleLogs, sessions,
                         handlers, acks>>]_vars
  /\ [](lastResponse.status = 409 =>
          lastResponse.error = IF lastResponse.kind = "start"
                               THEN "Recording already in progress"
                               ELSE "No recording in progress")

\* C12 witness: a start was rejected while the active recording holds a frame
\* and the console an entry.
C12_Witness ==
  /\ lastResponse.kind = "start" /\ lastResponse.status = 409
  /\ IsRecording
  /\ recordings[recording].frameCount >= 1
  /\ consoleLogs # <<>>

(***************************************************************************)
(* Properties of ActionExecutor                                            *)
(***************************************************************************)
RefNames == {"click", "type", "hover", "select"}

\* C16: a call of execute never ends by throwing; whenever something was
\* thrown inside it (by the ref resolver, the element or the page) it returns
\* success = false with the thrown message; an unknown kind returns the
\* error "Unknown action: <kind>"; a ref that resolves to nothing returns a
\* failure with no page or element operation started.
C16_ExecuteNeverThrows ==
  execution.action.name # "none" =>
    LET a == execution.action
        env == execution.env
        out == execution.outcome
    IN /\ ~out.thrown
       /\ out.value.success => out.value = Ok
       /\ ~out.value.success => out.value.error # <<>>
       /\ execution.raised =>
            /\ ~out.value.success
            /\ out.value.error[1] = "err.message"
       /\ (a.name \in RefNames /\ a.input.ref # "" /\ env.resolveRef = "throws")
            => ~out.value.success
       /\ (a.name # "select" /\ \E i \in DOMAIN out.ops : i \in env.failing)
            => ~out.value.success
       /\ a.name \notin ActionNames =>
            /\ out.value = Failed(<<"Unknown action", a.name>>)
            /\ out.ops = <<>>
       /\ (a.name \in RefNames /\ a.input.ref # "" /\ env.resolveRef = "null")
            => /\ ~out.value.success
               /\ out.ops = <<>>

\* C16 witness: the second operation of a type action threw and execute
\* returned the failure.
C16_Witness ==
  /\ execution.action.name = "type"
  /\ execution.raised
  /\ Len(execution.outcome.ops) = 2
  /\ ~execution.outcome.thrown
  /\ ~execution.outcome.value.success

(***************************************************************************)
(* Properties of BudgetController                                          *)
(***************************************************************************)
\* the limits in the order canProceed checks them, each with its reason, for
\* counters b and elapsed time el: violated at equality
LimitChecks(b, lim, el) ==
  << [violated |-> ~(b.cycles < lim.maxCycles),
      reason |-> "Max cycles reached"],
     [violated |-> ~(b.inputTokens + b.outputTokens < lim.maxTokens),
      reason |-> "Max tokens reached"],
     [violated |-> ~(b.inputTokens * INPUT_COST_PER_M
                       + b.outputTokens * OUTPUT_COST_PER_M
                     < lim.maxCostMicroUSD),
      reason |-> "Max cost reached"],
     [violated |-> ~(el < lim.maxDurationMs),
      reason |-> "Max duration reached"] >>

\* C17: canProceed answers allowed exactly when no limit is violated (cycles,
\* input plus output tokens, cost at 3 and 15 dollars per million tokens,
\* elapsed time, each violated at equality), and otherwise gives the reason
\* of the first violated limit in the order cycles, tokens, cost, duration.
C17_CanProceedFirstViolation ==
  answer.asked =>
    LET checks == LimitChecks(answer.budget, controllerLimits, answer.elapsed)
    IN /\ answer.allowed <=> \A i \in DOMAIN checks : ~checks[i].violated
       /\ ~answer.allowed =>
            \E i \in DOMAIN checks :
              /\ checks[i].violated
              /\ \A j \in 1..(i - 1) : ~checks[j].violated
              /\ answer.reason = checks[i].reason

\* C17 witness: canProceed denied for the token limit, reached exactly, while
\* the cost limit was violated too.
C17_Witness ==
  /\ answer.asked
  /\ answer.reason = "Max tokens reached"
  /\ answer.budget.inputTokens + answer.budget.outputTokens
       = controllerLimits.maxTokens
  /\ LimitChecks(answer.budget, controllerLimits, answer.elapsed)[3].violated

\* the sum of field f ("input" or "output") over a sequence of reports
RECURSIVE SumOf(_, _)
SumOf(f, seq) ==
  IF seq = <<>> THEN 0
  ELSE (IF f = "input" THEN Head(seq).input ELSE Head(seq).output)
         + SumOf(f, Tail(seq))

\* C18: cycles is the number of onCycleComplete calls and the token totals
\* are the sums of the reported counts; cycles, token totals, cost and
\* elapsed time never decrease; a canProceed call that follows a denied one
\* is denied too.
C18_BudgetMonotonic ==
  /\ [](/\ controller.cycles = Len(reports)
        /\ controller.inputTokens = SumOf("input", reports)
        /\ controller.outputTokens = SumOf("output", reports))
  /\ [][/\ controller'.cycles >= controller.cycles
        /\ controller'.inputTokens >= controller.inputTokens
        /\ controller'.outputTokens >= controller.outputTokens
        /\ estimateCost(controller') >= estimateCost(controller)
        /\ controllerElapsed' >= controllerElapsed]_vars
  /\ [][(answer.asked /\ ~answer.allowed) => ~answer'.allowed]_vars
  /\ [](answer.firstDenial # -1 => ~answer.allowed)

\* C18 witness: canProceed denied, more cycles were reported, and a later
\* canProceed call denied again.
C18_Witness ==
  /\ answer.firstDenial # -1
  /\ answer.budget.cycles > answer.firstDenial
  /\ ~answer.allowed
  /\ controller.inputTokens > 0

(***************************************************************************)
(* Properties of FrameSampler                                              *)
(***************************************************************************)
\* more than threshold percent of the pixels of a and b differ by more than
\* the noise level
DiffExceeds(a, b, threshold) ==
  Cardinality({i \in DOMAIN a : Abs(a[i] - b[i]) > PixelNoise}) * 100
    > threshold * Len(a)

\* C19: a hasChanged call that returns, returns true exactly when the forced
\* flag was set, or no thumbnail was cached, or the share of differing pixels
\* exceeds the threshold, or the skip counter reaches 5; after true the cache
\* holds the thumbnail of the new frame and the skip counter is 0, after
\* false the cache is as before and the skip counter is one more; the flag
\* is set exactly while forceCapture calls are pending, and every hasChanged
\* call leaves it cleared.
C19_HasChangedDecision ==
  /\ sampler.forceNextCapture <=> pendingForces > 0
  /\ samplerCall.outcome # "none" =>
       /\ ~samplerCall.after.forceNextCapture
       /\ samplerCall.before.forceNextCapture <=> samplerCall.forces > 0
  /\ samplerCall.outcome \in {"true", "false"} =>
       LET before == samplerCall.before
           after == samplerCall.after
           thumbnail == makeThumbnail(samplerCall.frame)
       IN /\ samplerCall.outcome = "true" <=>
               \/ before.forceNextCapture
               \/ before.lastThumbnail = Null
               \/ DiffExceeds(before.lastThumbnail, thumbnail,
                              before.diffThreshold)
               \/ before.consecutiveSkips + 1 = HeartbeatSkips
          /\ samplerCall.outcome = "true" =>
               /\ after.lastThumbnail = thumbnail
               /\ after.consecutiveSkips = 0
          /\ samplerCall.outcome = "false" =>
               /\ after.lastThumbnail = before.lastThumbnail
               /\ after.consecutiveSkips = before.consecutiveSkips + 1

\* C19 witness: after two skips forceCapture was called twice, and the next
\* hasChanged call returned true for a frame equal to the cached one.
C19_Witness ==
  /\ samplerCall.outcome = "true"
  /\ samplerCall.forces = 2
  /\ samplerCall.before.lastThumbnail = makeThumbnail(samplerCall.frame)
  /\ samplerCall.before.consecutiveSkips = 2

\* C20: while a fresh sampler is fed one frame again and again, the results
\* are true, then four times false, true, four times false, true, and so on;
\* hasChanged never returns false five times in a row, and between calls the
\* skip counter is between 0 and 4.
C20_SamplerHeartbeat ==
  /\ heartbeat.on =>
       \A i \in DOMAIN heartbeat.returns :
         heartbeat.returns[i] = ((i - 1) % HeartbeatSkips = 0)
  /\ falseRun < HeartbeatSkips
  /\ sampler.consecutiveSkips \in 0..(HeartbeatSkips - 1)

\* C20 witness: the same frame was fed eleven times to a fresh sampler, the
\* last call returning true after four times false.
C20_Witness ==
  /\ heartbeat.on
  /\ Len(heartbeat.returns) >= 11
  /\ heartbeat.returns[11]
  /\ falseRun = 0

(***************************************************************************)
(* Properties of the page registry                                         *)
(***************************************************************************)
\* the latest response is the 200 of the start request of the current
\* recording, which is still recording
ScreencastActive ==
  /\ IsRecording
  /\ lastResponse.kind = "start" /\ lastResponse.status = 200
  /\ lastResponse.recording = recording

\* C13: in the step that removes the entry from the registry, whether taken
\* by DELETE /pages/:name or by the close event of the page, a screencast
\* that was active is stopped and its session detached, and the console
\* session of the entry is detached; once the entry is removed, a request
\* to a per-page endpoint is answered 404.
C13_CloseTearsDown ==
  /\ [][(registry # 0 /\ registry' = 0) =>
          /\ ScreencastActive =>
               /\ ~sessions'[recordings[recording].cdpSession].screencast
               /\ ~sessions'[recordings[recording].cdpSession].attached
          /\ pageEntries'[registry].consoleSession # "attached"]_vars
  /\ [][(registry = 0 /\ handlers' = handlers /\ lastResponse' # lastResponse)
          => lastResponse'.status = 404]_vars
  /\ [][(registry = 0 /\ deletes' = deletes
           /\ pageResponses' # pageResponses)
          => pageResponses'[Len(pageResponses')].status = 404]_vars

\* a POST /pages request was answered 200 with the target id of page p
Answered(p) ==
  \E i \in DOMAIN pageResponses :
    /\ pageResponses[i].kind = "post" /\ pageResponses[i].status = 200
    /\ pageResponses[i].targetId = p

\* C14: at most one page created for the name is open at a time; a POST
\* /pages answered while the page of an earlier answer is still open carries
\* the same targetId; an open page whose target id was handed out is the
\* page of the registered entry.
C14_OnePagePerName ==
  /\ Cardinality(OpenPages) <= 1
  /\ \A i, j \in DOMAIN pageResponses :
       (/\ i < j
        /\ pageResponses[i].kind = "post" /\ pageResponses[i].status = 200
        /\ pageResponses[j].kind = "post" /\ pageResponses[j].status = 200
        /\ pageResponses[i].targetId \in pageResponses[j].open)
         => pageResponses[j].targetId = pageResponses[i].targetId
  /\ \A p \in OpenPages :
       Answered(p) => registry # 0 /\ pageEntries[registry].page = p

(***************************************************************************)
(* compressHistory.                                                        *)
(***************************************************************************)
\* str.split("\n")
RECURSIVE split(_)
split(str) ==
  IF str = <<>> THEN <<<<>>>>
  ELSE IF Head(str) = "\n" THEN <<<<>>>> \o split(Tail(str))
  ELSE LET rest == split(Tail(str))
       IN <<<<Head(str)>> \o rest[1]>> \o Tail(rest)

\* the lines of a string, the empty string having none
LinesOf(str) == IF str = <<>> THEN <<>> ELSE split(str)

\* C21: compressHistory returns the empty string for no entries, exactly N
\* lines for 1 <= N <= maxDetailed entries, and for N > maxDetailed entries
\* exactly 1 + maxDetailed lines: a summary that counts the N - maxDetailed
\* oldest entries (K succeeded, the rest failed), then the last maxDetailed
\* entries in their order.
C21_CompressHistoryLines ==
  LET entries == compression.entries
      N == Len(entries)
      m == compression.maxDetailed
      lines == LinesOf(compression.out)
      older == SubSeq(entries, 1, N - m)
      K == Cardinality({i \in 1..(N - m) : entries[i].result.success})
  IN compression.called =>
       /\ N = 0 => compression.out = <<>>
       /\ (1 <= N /\ N <= m) => Len(lines) = N
       /\ (1 <= N /\ N > m) =>
            /\ Len(lines) = 1 + m
            /\ lines[1] = <<"[", ToString(N - m), " earlier actions: ",
                            ToString(K), " succeeded, ",
                            ToString(N - m - K), " failed]">>
            /\ \A i \in 1..m : lines[1 + i] = detailLine(entries[N - m + i])

(***************************************************************************)
(* Key frames.                                                             *)
(***************************************************************************)
\* C22 as stated: for every buffer length len >= 1 and keyFrameCount >= 1,
\* stop with extractKeyFrames writes keyFrameCount files, file i + 1 holding
\* the buffered frame at index i * floor(len / keyFrameCount).
C22_KeyFramesAsStated ==
  LET len == Len(extraction.frameBuffer)
      count == extraction.options.keyFrameCount
  IN (extraction.called /\ extraction.options.extractKeyFrames /\ len >= 1) =>
       /\ Len(extraction.files) = count
       /\ \A i \in 0..(count - 1) :
            /\ extraction.files[i + 1].number = i + 1
            /\ extraction.files[i + 1].frame =
                 extraction.frameBuffer[i * (len \div count) + 1]

\* C22, amended: for every buffer length len >= 1 and keyFrameCount >= 1,
\* stop with extractKeyFrames writes min(keyFrameCount, len) files, file
\* i + 1 holding the buffered frame at index i * max(1, floor(len /
\* keyFrameCount)); without extractKeyFrames it writes none.
C22_KeyFrames ==
  LET len == Len(extraction.frameBuffer)
      count == extraction.options.keyFrameCount
      step == Max(1, len \div count)
  IN extraction.called =>
       IF extraction.options.extractKeyFrames /\ len >= 1
       THEN /\ Len(extraction.files) = Min(count, len)
            /\ \A i \in 0..(Min(count, len) - 1) :
                 /\ extraction.files[i + 1].number = i + 1
                 /\ extraction.files[i + 1].frame =
                      extraction.frameBuffer[i * step + 1]
       ELSE extraction.files = <<>>

\* 10 buffered frames and keyFrameCount 5 gave files 1..5 from buffer
\* indices 0, 2, 4, 6, 8
C22_Witness ==
  /\ extraction.called
  /\ extraction.options.extractKeyFrames
  /\ Len(extraction.frameBuffer) = 10
  /\ extraction.options.keyFrameCount = 5
  /\ extraction.files =
       [i \in 1..5 |-> [number |-> i,
                        frame |-> extraction.frameBuffer[2 * (i - 1) + 1]]]

(***************************************************************************)
(* Encoder absence.                                                        *)
(***************************************************************************)
\* the operations a stop runs when ffmpeg is not installed
FallbackOps == {"mkdirOutput", "mkdirFrames", "writeFile", "writeKeyFrame",
                "writeSummary"}

\* C23: when ffmpeg is unavailable, stop on a non-empty recording still
\* succeeds (no file operation failing): every buffered frame is written, in
\* buffer order and one file per frame, to the frames directory, that
\* directory is returned as videoPath, no video is produced, and the page's
\* recording state is reset.
C23_EncoderAbsentFallsBack ==
  LET frames == encoding.frameBuffer
      out == encoding.outcome
  IN (/\ encoding.called
      /\ ~encoding.env.ffmpeg
      /\ Len(frames) >= 1
      /\ encoding.env.failing \cap FallbackOps = {}) =>
       /\ out.status = 200
       /\ out.videoPath = "framesDir"
       /\ DOMAIN out.framesDir = 0..(Len(frames) - 1)
       /\ \A i \in 0..(Len(frames) - 1) : out.framesDir[i] = frames[i + 1]
       /\ out.video = <<>>
       /\ out.frameCount = Len(frames)
       /\ out.recording = 0

\* a stop of three frames without ffmpeg answered 200 with the frames
\* directory
C23_Witness ==
  /\ encoding.called
  /\ ~encoding.env.ffmpeg
  /\ encoding.env.failing = {}
  /\ Len(encoding.frameBuffer) = 3
  /\ encoding.outcome.status = 200
  /\ encoding.outcome.videoPath = "framesDir"
  /\ encoding.outcome.framesDir = [i \in 0..2 |-> encoding.frameBuffer[i + 1]]

(***************************************************************************)
(* Recording Engine: overlapping requests and late frame acknowledgements. *)
(***************************************************************************)
\* the start request that created the page's recording state has answered
\* 200 and no stop request has been accepted since
StartedAndActive ==
  /\ IsRecording
  /\ sessions[recordings[recording].cdpSession].screencast

\* a stop request for the page's recording is accepted in this step
StopAccepted ==
  \E h \in handlers' \ handlers : h.kind = "stop" /\ h.recording = recording

\* C24: once the start of the page's recording has answered 200, the page
\* stays recording (the status endpoint reports isRecording = true, so
\* delivered frames are stored) until a stop request for the page is
\* accepted; a stop that was accepted earlier and completes or fails
\* afterwards does not reset it.
C24_StartedStaysActive ==
  [][StartedAndActive => RecordingStatus.isRecording' \/ StopAccepted]_vars

\* C25: a frame handler whose acknowledgement is still in flight once stop
\* has set isRecording to false ends without an error, the server keeps
\* running, and its frame is not stored, whether the acknowledgement
\* completes before or after the page's recording state is reset.
C25_LateAckTolerated ==
  [][\A a \in acks :
       (~IsRecording /\ a \notin acks') =>
         /\ ~serverExit'
         /\ recordings' = recordings]_vars

\* the encoder takes the frames of the recording a stop handler stopped
EncoderReads(h) ==
  /\ h \in handlers /\ h.kind = "stop" /\ h.pc = "encode"
  /\ [h EXCEPT !.pc = "title"] \in handlers'

\* the frame of acknowledgement a is stored in recording k
FrameStored(a, k) ==
  /\ a \in acks /\ a \notin acks'
  /\ recordings'[k].frameBuffer = Append(recordings[k].frameBuffer, a.frame)

\* C26: the frameCount a stop reports equals the number of frames the
\* encoder is given, and a frame is only ever stored in the buffer of the
\* recording whose own screencast session delivered it.
C26_FramesOfOwnRecording ==
  [][/\ \A h \in handlers :
          EncoderReads(h) =>
            h.frameCount = Len(recordings[h.recording].frameBuffer)
     /\ \A a \in acks, k \in DOMAIN recordings :
          FrameStored(a, k) => a.session = recordings[k].cdpSession]_vars

\* ids are given to console entries and to frames in the order their events
\* are delivered
InDeliveryOrder(seq) ==
  \A i, j \in DOMAIN seq : i < j => seq[i] < seq[j]

\* C27: the console log of the page holds its entries in the order their
\* events were delivered, and the frame buffer of every recording holds its
\* frames in the order their screencast events were delivered, whatever the
\* order in which outstanding acknowledgements complete.
C27_DeliveryOrderKept ==
  /\ InDeliveryOrder(consoleLogs)
  /\ \A k \in DOMAIN recordings : InDeliveryOrder(recordings[k].frameBuffer)

(***************************************************************************)
(* Perception Loop: exceptions inside a cycle, and the budget figures.     *)
(***************************************************************************)
\* C28: an exception thrown inside a cycle does not escape run: the catch
\* block appends one entry with action "error" and success = false, adds
\* one to the consecutive-error counter, and the loop goes on with the next
\* cycle unless the counter has reached maxConsecutiveErrors, in which case
\* run returns its result.
C28_CycleErrorsContained ==
  [][pc = "catch" =>
       /\ pc' # "threw"
       /\ Len(history') = Len(history) + 1
       /\ SubSeq(history', 1, Len(history)) = history
       /\ history'[Len(history')].cycle = cycle
       /\ history'[Len(history')].action.name = "error"
       /\ ~history'[Len(history')].result.success
       /\ consecutiveErrors' = consecutiveErrors + 1
       /\ IF consecutiveErrors' >= config.maxConsecutiveErrors
          THEN pc' = "returned"
          ELSE pc' = "loopTop" /\ cycle' = cycle + 1]_vars

(***************************************************************************)
(* FrameSampler: a failing resample.                                       *)
(***************************************************************************)
\* C29: when makeThumbnail fails inside hasChanged the error propagates and
\* the sampler (cached thumbnail, skip counter, forced-capture flag) is as
\* it was before the call, also when the call found the forced-capture flag
\* set.
C29_FailedResampleKeepsState ==
  samplerCall.frame = Corrupt /\ samplerCall.outcome # "none" =>
    /\ samplerCall.outcome = "threw"
    /\ samplerCall.after = samplerCall.before

\* the token usage of the recorded cycle entries
RECURSIVE TokensOf(_)
TokensOf(h) ==
  IF h = <<>> THEN 0
  ELSE Head(h).tokens.input + Head(h).tokens.output + TokensOf(Tail(h))

\* C30: in the result run returns, budgetUsed.cycles equals cycles, the
\* number of cycle entries recorded, and budgetUsed.estimatedTokens equals
\* the token usage of all recorded entries; summary.json holds the same
\* figures.
C30_BudgetUsedMatchesHistory ==
  pc = "returned" =>
    /\ result.cycles = Len(history)
    /\ result.budgetCycles = result.cycles
    /\ result.estimatedTokens = TokensOf(history)
    /\ summaryJson # <<>>
    /\ summaryJson[Len(summaryJson)].cycles = result.cycles
    /\ summaryJson[Len(summaryJson)].cycles_used = result.budgetCycles
    /\ summaryJson[Len(summaryJson)].tokens = result.estimatedTokens

\* summary.json repeats the success flag, summary and cycle count of r
SummaryOf(r, written) ==
  /\ written.success = r.success
  /\ written.summary = r.summary
  /\ written.cycles = r.cycles

\* C31: a run that returns a result has written summary.json exactly once,
\* with the success flag, summary and cycle count of the returned result,
\* and no cycle record is appended to cycles.jsonl after that write.
C31_SummaryWrittenOnce ==
  [][/\ pc' = "returned" =>
          /\ Len(summaryJson') = 1
          /\ SummaryOf(result', summaryJson'[1])
     /\ summaryJson' # summaryJson => pc' = "returned"
     /\ summaryJson # <<>> => cyclesJsonl' = cyclesJsonl]_vars

\* a run returned after an error cycle and a recorded cycle
C31_Witness ==
  /\ pc = "returned"
  /\ Len(summaryJson) = 1
  /\ result.cycles = 2
  /\ Len(cyclesJsonl) = 2
  /\ result.budgetCycles = 1

\* the last three entries of the history have the same kind and input
LastThreeIdentical(h) ==
  /\ Len(h) >= 3
  /\ \A i \in (Len(h) - 2)..Len(h) :
       /\ h[i].action.name = h[Len(h)].action.name
       /\ h[i].action.input = h[Len(h)].action.input

\* C32: the task text given to analyzeFrame is the original task followed by
\* one stuck warning when the last three cycle entries have the same kind
\* and input, and the original task alone otherwise, in every cycle.
C32_StuckWarningOnce ==
  [][pc = "analyze" =>
       taskWithContext' = IF LastThreeIdentical(history)
                          THEN <<"task", StuckWarning>>
                          ELSE <<"task">>]_vars

\* the second cycle in a row that finds the run stuck
C32_Witness ==
  /\ pc = "validate"
  /\ cycle = 4
  /\ Len(history) = 4
  /\ LastThreeIdentical(SubSeq(history, 1, 3))
  /\ LastThreeIdentical(history)
  /\ taskWithContext = <<"task", StuckWarning>>

\* the response holds no tool_use block
NoToolUse(content) == \A i \in 1..Len(content) : content[i].type # "tool_use"

\* the text of the response, or the default string when it has no text block
ReasonOf(content) ==
  IF \E i \in 1..Len(content) : content[i].type = "text"
  THEN content[CHOOSE i \in 1..Len(content) :
                 /\ content[i].type = "text"
                 /\ \A j \in 1..(i - 1) : content[j].type # "text"].text
  ELSE DefaultReason

C34_TerminalActionsAreNoOps ==
  /\ execution.action.name \in {"done", "fail"} =>
       /\ execution.outcome = Returned(Ok, <<>>)
       /\ ~execution.raised
  /\ \A i \in DOMAIN executed : executed[i].action.name \notin {"done", "fail"}
  /\ \A i \in DOMAIN history :
       history[i].action.name \in {"done", "fail"} => history[i].result = Ok
  /\ (pc = "returned" /\ history # <<>>
        /\ history[Len(history)].action.name = "fail") => ~result.success

\* execute was handed a fail action while every page operation would have
\* thrown, and the run returned failure from a fail action recorded as a
\* success
C34_Witness ==
  /\ execution.action.name = "fail"
  /\ execution.env.failing = 1..MaxOps
  /\ execution.env.resolveRef = "throws"
  /\ pc = "returned"
  /\ history[1].action.name = "fail"
  /\ history[1].result.success
  /\ ~result.success
  /\ executed = <<>>

\* a start or stop handler has ended in its catch block on this step
AnsweredError(kind) ==
  /\ \E h \in handlers : h.kind = kind /\ handlers' = handlers \ {h}
  /\ lastResponse'.kind = kind
  /\ lastResponse'.status = 500

\* C35: a stop that fails in the encoder, a key-frame write or the summary
\* write answers 500 with the error message and leaves entry.recording
\* undefined, so the next start is not refused and the next stop is answered
\* 409; a start that fails answers 500 and leaves entry.recording undefined
\* too.
C35_FailureLeavesIdle ==
  [][/\ (AnsweredError("stop") \/ AnsweredError("start")) =>
          /\ lastResponse'.error = "err.message"
          /\ recording' = 0
          /\ ~IsRecording'
     /\ (~IsRecording /\ lastResponse' # lastResponse
           /\ lastResponse'.kind = "stop" /\ handlers' = handlers) =>
          /\ lastResponse'.status = 409
          /\ lastResponse'.error = "No recording in progress"]_vars

\* a stop has failed in the encoder after a frame was captured, and the page
\* is idle
C35_Witness ==
  /\ lastResponse = InternalError("stop", 1)
  /\ Len(recordings[1].frameBuffer) > 0
  /\ recording = 0
  /\ handlers = {}

\* C36: a stop of a recording whose buffer is empty answers 200 when the
\* summary write succeeds: the encoder is not called and nothing is written
\* for the video, videoPath is the planned output path, frameCount is 0,
\* keyFramePaths is empty, the summary is written and entry.recording is
\* undefined.
C36_EmptyRecordingStops ==
  LET out == encoding.outcome
  IN (/\ encoding.called
      /\ Len(encoding.frameBuffer) = 0
      /\ "writeSummary" \notin encoding.env.failing) =>
       /\ out.status = 200
       /\ ~out.encoderCalled
       /\ out.videoPath = "outputPath"
       /\ out.video = <<>>
       /\ out.framesDir = NoFiles
       /\ out.frameCount = 0
       /\ out.keyFramePaths = <<>>
       /\ out.summaryWritten
       /\ out.recording = 0

\* an empty recording was stopped on a machine without ffmpeg whose video
\* and key-frame writes would all have failed
C36_Witness ==
  /\ encoding.called
  /\ encoding.frameBuffer = <<>>
  /\ ~encoding.env.ffmpeg
  /\ encoding.env.failing = EncodeOps \ {"writeSummary"}
  /\ encoding.outcome.status = 200
  /\ encoding.outcome.summaryWritten

\* entry.recording, or the handler of a start or stop still running, holds
\* the recording state of session s
SessionReferred(s) ==
  \/ recording # 0 /\ recordings[recording].cdpSession = s
  \/ \E h \in handlers :
       h.recording # 0 /\ recordings[h.recording].cdpSession = s

\* C37: a CDP session created by recording/start does not stay attached once
\* no recording state refers to it: with the page open, every attached
\* session is the session of entry.recording or of a start or stop request
\* that is still running.
C37_NoOrphanSession ==
  \A s \in DOMAIN sessions : sessions[s].attached => SessionReferred(s)

\* C38: an entry leaves the registry only through the close of its own page:
\* on every step that empties registry.get(name), by a page's close handler
\* or by the tail of a DELETE request, the page of the entry that was
\* registered is closed.
C38_OnlyOwnEntryRemoved ==
  [][(registry # 0 /\ registry' = 0) =>
       ~browserPages'[pageEntries[registry].page].open]_vars


\* every page is closed and no console session is attached
PagesTornDown ==
  /\ \A p \in DOMAIN browserPages : ~browserPages[p].open
  /\ \A e \in DOMAIN pageEntries : pageEntries[e].consoleSession # "attached"

\* teardown closes the page itself, and the recording it found active is
\* still the entry's recording
ClosesRecordedPage ==
  /\ cleanupCall.pc = "close" /\ cleanupCall'.pc = "closed"
  /\ browserPages[pageEntries[cleanupCall.entry].page].open
  /\ cleanupCall.session # 0
  /\ IsRecording
  /\ recordings[recording].cdpSession = cleanupCall.session

\* C39: on shutdown the session of the page's active recording is detached
\* before teardown closes the page; every page is closed, every console
\* session detached and the registry empty when context.close() is called;
\* the registry is empty and the context closed when teardown is over; a
\* further signal or unhandled error does not start or disturb teardown; and
\* the process exits only when teardown is over.
C39_ShutdownTearsDownBeforeExit ==
  [][/\ ClosesRecordedPage => ~sessions[cleanupCall.session].attached
     /\ cleanupCall.pc # "context" /\ cleanupCall'.pc = "context" =>
          PagesTornDown' /\ registry' = 0
     /\ cleanupCall'.pc = "done" => registry' = 0 /\ ~context'
     /\ cleanupCall.pc # "idle" /\ triggers' # triggers =>
          cleanupCall' = cleanupCall
     /\ serverExit' => cleanupCall'.pc = "done"]_vars

\* the indexes, after the first character, of the newlines of s at which a cut
\* leaves room for the notice under the cap
NewlinesBeforeCap(s, cap) ==
  {k \in 1..Min(cap - NoticeLength, Len(s) - 1) : s[k + 1] = Newline}

\* out is the first k characters of s followed by the notice
CutAt(s, k, out) == out = SubSeq(s, 1, k) \o notice

\* C40: the snapshot given to the Vision Client is the original when its
\* length is at most the cap; otherwise it is a prefix of the original
\* followed by the fixed notice, the prefix ending at the last newline that
\* leaves room for the notice when there is one, and its length is at most
\* the cap.
C40_TruncatedSnapshotFitsCap ==
  truncation.called =>
    LET s == truncation.snapshot
        cap == truncation.maxChars
        out == truncation.out
        newlines == NewlinesBeforeCap(s, cap)
    IN IF Len(s) <= cap THEN out = s
       ELSE /\ \E k \in 0..Len(s) : CutAt(s, k, out)
            /\ newlines # {} =>
                 \E k \in newlines :
                   /\ \A other \in newlines : other <= k
                   /\ CutAt(s, k, out)
            /\ Len(out) <= cap
====
